---- MODULE Spec2Model ----
(***************************************************************************)
(* Agent orchestration core of the Excel-Ollama plugin:                    *)
(*   src/src/agents/base_agent.py      BaseAgent (message handling)        *)
(*   src/src/core/agent_controller.py  AgentController (queues, workers)   *)
(*   src/src/core/ollama_client.py     CircuitBreaker, OllamaClient        *)
(***************************************************************************)
EXTENDS Integers, Sequences, FiniteSets, TLC

(***************************************************************************)
(* Bounds of the model.                                                    *)
(***************************************************************************)
MaxTasks == 2
MaxSends == 1
MaxMsgId == 2
MaxAgents == 2
MaxThreshold == 3
MaxRecovery == 2
MaxRetries == 2
MaxTime == 4
MaxFailures == 5
MaxPolls == 2
MaxAge == 2
MaxStops == 2
MaxWorkers == 2

VARIABLES
  agent_types,     \* AgentController.agent_types: the registered agent types
  agents,          \* AgentController.agents: live agents in insertion order
  running,         \* AgentController.running
  task_queue,      \* AgentController.task_queue
  message_queue,   \* AgentController.message_queue
  results_cache,   \* AgentController.results_cache: task_id -> AnalysisResult
  timestamp,       \* task_id -> AnalysisResult.timestamp of the cached result
  ccLast,          \* the most recent clear_cache call
  tpPc,            \* _task_processor: "none" | "idle" | "awaiting"
  tpTask,          \* task held by _task_processor while awaiting the agent
  tpAgent,         \* selected_agent of _task_processor (agent_id and class)
  tpReq,           \* request_message of _task_processor
  tpLive,          \* selected_agent is still the instance stored in agents
  rtPc,            \* _message_router: "none" | "idle" | "awaiting"
  rtMsg,           \* message held by _message_router while awaiting the agent
  rtAgent,         \* recipient_agent of _message_router (agent_id and class)
  rtLive,          \* recipient_agent is still the instance stored in agents
  nextTask,        \* number of tasks submitted so far (task ids are 1..nextTask)
  sends,           \* number of send_message calls so far
  consumed,        \* task ids taken from task_queue
  abandoned,       \* task ids whose processing was cancelled by stop()
  calls,           \* task_id -> process_message calls made for the task
  capQuery,        \* the most recent can_handle / get_agents_by_capability call
  worker_tasks,    \* AgentController._worker_tasks: the kinds of the tasks in it
  workers,         \* number of worker coroutines that have not terminated
  stopping,        \* number of stop() calls suspended in asyncio.gather
  grPc,            \* get_analysis_result: "idle" | "polling" | "done"
  grKind,          \* the caller: "get" (direct) | "pipeline"
  grTask,          \* get_analysis_result: task_id
  grLeft,          \* loop iterations left whose time test will pass
  grPolled,        \* the loop has looked into results_cache at least once
  grSeen,          \* "open" until the deadline; then whether a result was
                   \* cached by the deadline: "in_time" | "late"
  grResult         \* what the call returned or raised

VARIABLES
  circuit_breaker, \* OllamaClient.circuit_breaker: a CircuitBreaker
  max_retries,     \* OllamaClient.max_retries
  now,             \* time.time()
  rqPc,            \* _make_sync_request: "idle" | "attempt" | "done"
  attempt,         \* _make_sync_request: the loop variable
  httpCalls,       \* requests.request calls made by the current request
  script,          \* the transport fails this many calls, then answers 200
  rejected,        \* the breaker refused an attempt of the current request
  rqResult,        \* how the current request ended
  streak,          \* record_failure calls since the last record_success
  cbLast           \* the most recent CircuitBreaker method call

VARIABLES
  current_model,   \* OllamaClient.current_model
  available_models,\* OllamaClient.available_models: name -> ModelInfo.status
  mdLast           \* the most recent model-management call and how it ended

cbVars == <<circuit_breaker, max_retries, now, rqPc, attempt, httpCalls,
            script, rejected, rqResult, streak, cbLast>>

mdVars == <<current_model, available_models, mdLast>>

ctlVars == <<agent_types, agents, running, task_queue, message_queue, results_cache,
             timestamp, ccLast,
             tpPc, tpTask, tpAgent, tpReq, tpLive, rtPc, rtMsg, rtAgent, rtLive,
             nextTask, sends, consumed, abandoned, calls, capQuery,
             worker_tasks, workers, stopping,
             grPc, grKind, grTask, grLeft, grPolled, grSeen, grResult>>

wkVars == <<worker_tasks, workers, stopping>>

grVars == <<grPc, grKind, grTask, grLeft, grPolled, grSeen, grResult>>

vars == <<ctlVars, cbVars, mdVars>>

(***************************************************************************)
(* Python values.                                                          *)
(***************************************************************************)
PyNone == [pynone |-> TRUE]

EmptyDict == [k \in {} |-> 0]

IsDict(v) == "pynone" \notin DOMAIN v

\* dict.get(key, default)
DictGet(d, key, default) == IF key \in DOMAIN d THEN d[key] ELSE default

\* x in l, for a Python list l
RECURSIVE InList(_, _)
InList(x, l) ==
  IF l = <<>> THEN FALSE
  ELSE IF Head(l) = x THEN TRUE
  ELSE InList(x, Tail(l))

MsgIds == 1..MaxMsgId

NoId == 0

\* uuid.uuid4(): an id that differs from every id in used
FreshId(used) ==
  IF \E i \in MsgIds : i \notin used
  THEN CHOOSE i \in MsgIds : i \notin used
  ELSE CHOOSE i \in MsgIds : TRUE

(***************************************************************************)
(* base_agent.py: MessageType, AgentStatus, AgentMessage, AgentCapability. *)
(***************************************************************************)
MessageType == {"REQUEST", "RESPONSE", "NOTIFICATION", "ERROR"}

AgentStatus == {"IDLE", "BUSY", "ERROR", "STOPPED"}

AgentMessage(id, sender, recipient, message_type, payload, correlation_id) ==
  [id |-> id, sender |-> sender, recipient |-> recipient,
   message_type |-> message_type, payload |-> payload,
   correlation_id |-> correlation_id]

\* process_message returned None
NoMessage == AgentMessage(NoId, "", "", "NONE", EmptyDict, NoId)

\* Agent classes registered with the controller: "mock" is the MockAgent of
\* the tests, "trend" a second subclass of BaseAgent whose capabilities
\* overlap with it.
AgentClasses == {"mock", "trend"}

\* MockAgent._define_capabilities
MockCapabilities ==
  [agent_type |-> "mock",
   supported_analysis_types |-> <<"test_analysis">>,
   required_data_types |-> <<"numerical">>]

\* an AgentCapability that a second subclass's _define_capabilities returns
TrendCapabilities ==
  [agent_type |-> "trend",
   supported_analysis_types |-> <<"trend_analysis", "test_analysis">>,
   required_data_types |-> <<"time_series", "numerical">>]

\* self.capabilities of an agent of class cls
Capabilities(cls) ==
  IF cls = "mock" THEN MockCapabilities ELSE TrendCapabilities

AgentIds == {"a1", "a2"}

\* BaseAgent.__init__
NewAgent(agent_id, cls) ==
  [agent_id |-> agent_id, cls |-> cls, status |-> "IDLE",
   results_cache |-> EmptyDict]

\* can_handle with "or" in place of "and"
CanHandleEither(agent, analysis_type, data_type) ==
  \/ InList(analysis_type, Capabilities(agent.cls).supported_analysis_types)
  \/ InList(data_type, Capabilities(agent.cls).required_data_types)

\* BaseAgent.can_handle
CanHandle(agent, analysis_type, data_type) ==
  /\ InList(analysis_type, Capabilities(agent.cls).supported_analysis_types)
  /\ InList(data_type, Capabilities(agent.cls).required_data_types)

(***************************************************************************)
(* What _process_request can do: return a value or raise an Exception.     *)
(***************************************************************************)
PayloadFull ==
  [results |-> [test |-> "success"], confidence_score |-> 95,
   methodology |-> "mock_analysis"]

ExcText == <<"boom">>

Outcomes ==
  { [kind |-> "return", value |-> PayloadFull, text |-> <<>>],
    [kind |-> "return", value |-> EmptyDict, text |-> <<>>],
    [kind |-> "return", value |-> PyNone, text |-> <<>>],
    [kind |-> "raise", value |-> PyNone, text |-> ExcText] }

\* _handle_request copying the request's correlation_id instead of its id
HandleRequestReplyStale(agent_id, message, outcome, id) ==
  IF outcome.kind = "return"
  THEN AgentMessage(id, agent_id, message.sender, "RESPONSE",
                    outcome.value, message.correlation_id)
  ELSE AgentMessage(id, agent_id, message.sender, "ERROR",
                    [error |-> outcome.text], message.correlation_id)

\* BaseAgent._handle_request: the message returned once _process_request
\* has returned or raised
HandleRequestReply(agent_id, message, outcome, id) ==
  IF outcome.kind = "return"
  THEN AgentMessage(id, agent_id, message.sender, "RESPONSE",
                    outcome.value, message.id)
  ELSE AgentMessage(id, agent_id, message.sender, "ERROR",
                    [error |-> outcome.text], message.id)

\* _handle_request setting IDLE whether _process_request returned or raised
HandleRequestStatusIdle(outcome) == "IDLE"

\* BaseAgent._handle_request: the status set once _process_request is over
HandleRequestStatus(outcome) ==
  IF outcome.kind = "return" THEN "IDLE" ELSE "ERROR"

\* _handle_response storing the payload whether or not the message carries a
\* correlation_id
HandleOtherCacheAlways(agent, message) ==
  IF message.message_type = "RESPONSE"
  THEN [c \in DOMAIN agent.results_cache \cup {message.correlation_id} |->
           IF c = message.correlation_id THEN message.payload
           ELSE agent.results_cache[c]]
  ELSE agent.results_cache

\* BaseAgent._handle_response / _handle_notification / _handle_error: the
\* agent's results_cache afterwards
HandleOtherCache(agent, message) ==
  IF message.message_type = "RESPONSE" /\ message.correlation_id # NoId
  THEN [c \in DOMAIN agent.results_cache \cup {message.correlation_id} |->
           IF c = message.correlation_id THEN message.payload
           ELSE agent.results_cache[c]]
  ELSE agent.results_cache

\* an agent that answers every message that is not a REQUEST with an ERROR
ProcessOtherReplyAlways(agent_id, message, id) ==
  AgentMessage(id, agent_id, message.sender, "ERROR",
               [error |-> <<"Unknown message type", message.message_type>>],
               message.id)

\* BaseAgent.process_message for a message that is not a REQUEST
ProcessOtherReply(agent_id, message, id) ==
  IF message.message_type \in MessageType
  THEN NoMessage
  ELSE AgentMessage(id, agent_id, message.sender, "ERROR",
                    [error |-> <<"Unknown message type", message.message_type>>],
                    message.id)

(***************************************************************************)
(* agent_controller.py: AnalysisTask, AnalysisResult.                      *)
(***************************************************************************)
NumFrame == [columns |-> <<"value1", "value2">>, kinds |-> <<"i", "i">>]

DateFrame == [columns |-> <<"date", "value1">>, kinds |-> <<"M", "i">>]

\* data handed to submit_analysis_task: two DataFrames and None
DataSets == {NumFrame, DateFrame, PyNone}

\* DataFrames for every rule of _determine_data_type and their overlaps
ColumnNames ==
  <<"col_0", "col_1", "col_2", "col_3", "col_4", "col_5", "col_6", "col_7",
    "col_8", "col_9", "col_10">>

\* pd.DataFrame of n columns of one dtype kind
FrameOfKind(n, kind) ==
  [columns |-> SubSeq(ColumnNames, 1, n), kinds |-> [i \in 1..n |-> kind]]

\* df with one more column
WithColumn(df, name, kind) ==
  [columns |-> Append(df.columns, name), kinds |-> Append(df.kinds, kind)]

TimeFrame == [columns |-> <<"time", "value1">>, kinds |-> <<"O", "f">>]

MixedFrame == [columns |-> <<"num", "text">>, kinds |-> <<"i", "O">>]

TenFrame == FrameOfKind(10, "i")

TenMixedFrame == WithColumn(FrameOfKind(9, "f"), "text", "O")

WideFrame == FrameOfKind(11, "i")

WideDateFrame == WithColumn(FrameOfKind(10, "i"), "date", "M")

\* a datetime column that is named neither "date" nor "time"
StampFrame == [columns |-> <<"timestamp", "value1">>, kinds |-> <<"M", "i">>]

EmptyFrame == FrameOfKind(0, "i")

Frames ==
  {NumFrame, DateFrame, TimeFrame, MixedFrame, TenFrame, TenMixedFrame,
   WideFrame, WideDateFrame, StampFrame, EmptyFrame}

AnalysisTypes == {"test_analysis", "unknown_x"}

AnalysisTask(task_id, data, analysis_type) ==
  [task_id |-> task_id, data |-> data, analysis_type |-> analysis_type]

NoTask == AnalysisTask(0, PyNone, "")

AnalysisResult(task_id, agent_id, results, confidence_score, methodology, visualizations) ==
  [task_id |-> task_id, agent_id |-> agent_id, results |-> results,
   confidence_score |-> confidence_score, methodology |-> methodology,
   visualizations |-> visualizations]

NumericKinds == {"b", "i", "u", "f", "c"}

\* AgentController._determine_data_type raises AttributeError when data has
\* no columns
DataTypeRaises(data) == "columns" \notin DOMAIN data

\* _determine_data_type with the column count tested before the names
DetermineDataTypeWidthFirst(data) ==
  IF Len(data.columns) > 10 THEN "multivariate"
  ELSE IF InList("date", data.columns) \/ InList("time", data.columns)
  THEN "time_series"
  ELSE IF \A i \in 1..Len(data.kinds) : data.kinds[i] \in NumericKinds
  THEN "numerical"
  ELSE "mixed"

\* AgentController._determine_data_type
DetermineDataType(data) ==
  IF InList("date", data.columns) \/ InList("time", data.columns)
  THEN "time_series"
  ELSE IF Len(data.columns) > 10 THEN "multivariate"
  ELSE IF \A i \in 1..Len(data.kinds) : data.kinds[i] \in NumericKinds
  THEN "numerical"
  ELSE "mixed"

\* get_agents_by_capability without the can_handle filter
GetAgentsUnfiltered(agts, analysis_type, data_type) == agts

\* AgentController.get_agents_by_capability
RECURSIVE GetAgentsByCapability(_, _, _)
GetAgentsByCapability(agts, analysis_type, data_type) ==
  IF agts = <<>> THEN <<>>
  ELSE IF CanHandle(Head(agts), analysis_type, data_type)
  THEN <<Head(agts)>> \o GetAgentsByCapability(Tail(agts), analysis_type, data_type)
  ELSE GetAgentsByCapability(Tail(agts), analysis_type, data_type)

\* self.results_cache[task_id] = result
CachePut(cache, task_id, result) ==
  [t \in DOMAIN cache \cup {task_id} |-> IF t = task_id THEN result ELSE cache[t]]

\* a lookup that finds the first agent whatever agent_id is asked for
AgentIndexFirst(agts, agent_id) == IF agts = <<>> THEN 0 ELSE 1

\* position of agent_id in the agents dict, 0 when absent
AgentIndex(agts, agent_id) ==
  IF \E i \in 1..Len(agts) : agts[i].agent_id = agent_id
  THEN CHOOSE i \in 1..Len(agts) : agts[i].agent_id = agent_id
  ELSE 0

\* the agents dict after an agent instance changed one of its fields
AgentsWith(agts, agent_id, live, field, value) ==
  IF live /\ AgentIndex(agts, agent_id) # 0
  THEN [agts EXCEPT ![AgentIndex(agts, agent_id)] =
           [f \in DOMAIN @ |-> IF f = field THEN value ELSE @[f]]]
  ELSE agts

NoAgent == [agent_id |-> "", cls |-> ""]

\* the identity of an agent instance: its agent_id and its class
AgentRef(agent) == [agent_id |-> agent.agent_id, cls |-> agent.cls]

NoQuery ==
  [op |-> "none", agent |-> NoAgent, analysis_type |-> "", data_type |-> "",
   answer |-> FALSE, result |-> <<>>]

NoClear == [op |-> "none", max_age |-> 0, ages |-> EmptyDict]

(***************************************************************************)
(* AgentController.__init__                                                *)
(***************************************************************************)
CtlInit ==
  /\ agent_types = {}
  /\ agents = <<>>
  /\ running = FALSE
  /\ task_queue = <<>>
  /\ message_queue = <<>>
  /\ results_cache = EmptyDict
  /\ timestamp = EmptyDict
  /\ ccLast = NoClear
  /\ tpPc = "none" /\ tpTask = NoTask /\ tpAgent = NoAgent /\ tpReq = NoMessage
  /\ tpLive = FALSE
  /\ rtPc = "none" /\ rtMsg = NoMessage /\ rtAgent = NoAgent /\ rtLive = FALSE
  /\ nextTask = 0
  /\ sends = 0
  /\ consumed = {}
  /\ abandoned = {}
  /\ calls = [t \in 1..MaxTasks |-> 0]
  /\ capQuery = NoQuery
  /\ worker_tasks = <<>>
  /\ workers = 0
  /\ stopping = 0
  /\ grPc = "idle" /\ grKind = "none" /\ grTask = 0 /\ grLeft = 0
  /\ grPolled = FALSE /\ grSeen = "open" /\ grResult = PyNone

\* the no-agent result built with the defaults of the RESPONSE branch
NoCapableResultDefaults(task, data_type) ==
  AnalysisResult(task.task_id, "system",
                 [error |-> <<"No agents capable of handling",
                              task.analysis_type, "for", data_type>>],
                 0, "unknown", <<>>)

\* _task_processor: the result cached when no agent is capable
NoCapableResult(task, data_type) ==
  AnalysisResult(task.task_id, "system",
                 [error |-> <<"No agents capable of handling",
                              task.analysis_type, "for", data_type>>],
                 0, "error", <<>>)

\* _task_processor: the result cached for a RESPONSE
ResponseResult(task, agent_id, response) ==
  AnalysisResult(task.task_id, agent_id,
                 DictGet(response.payload, "results", EmptyDict),
                 DictGet(response.payload, "confidence_score", 0),
                 DictGet(response.payload, "methodology", "unknown"),
                 DictGet(response.payload, "visualizations", <<>>))

\* the ERROR result attributed to "system" instead of the selected agent
ErrorResultSystem(task, agent_id, response) ==
  AnalysisResult(task.task_id, "system",
                 [error |-> DictGet(response.payload, "error", <<"Unknown error">>)],
                 0, "error", <<>>)

\* _task_processor: the result cached for an ERROR
ErrorResult(task, agent_id, response) ==
  AnalysisResult(task.task_id, agent_id,
                 [error |-> DictGet(response.payload, "error", <<"Unknown error">>)],
                 0, "error", <<>>)

\* a selection that takes the capable agent created last
SelectAgentLast(capable_agents) == capable_agents[Len(capable_agents)]

\* _task_processor: selected_agent = capable_agents[0]
SelectAgent(capable_agents) == capable_agents[1]

\* a task processor that puts a failed task back on the queue
QueueAfterOutcomeRetry(queue, task, response) ==
  IF response.message_type = "ERROR" THEN Append(queue, task) ELSE queue

\* _task_processor: the task queue after an iteration; neither branch puts the
\* task back
QueueAfterOutcome(queue, task, response) == queue

\* asyncio.Queue.get: the queue once its head has been taken
QueueAfterGet(queue) == Tail(queue)

\* _task_processor: the payload of request_message
RequestPayload(task) ==
  [task_id |-> task.task_id, data |-> task.data,
   analysis_type |-> task.analysis_type]

(***************************************************************************)
(* AgentController operations.                                             *)
(***************************************************************************)
\* register_agent_type
RegisterAgentType(agent_type) ==
  /\ agent_type \notin agent_types
  /\ agent_types' = agent_types \cup {agent_type}
  /\ UNCHANGED <<agents, running, task_queue, message_queue, results_cache,
                 tpPc, tpTask, tpAgent, tpReq, tpLive, rtPc, rtMsg, rtAgent,
                 rtLive, nextTask, sends, consumed, abandoned, calls, capQuery, wkVars, grVars, timestamp, ccLast, cbVars, mdVars>>

\* create_agent called without an agent_id (the default None)
NoAgentId == "<None>"

\* ids that f"{agent_type}_{uuid.uuid4().hex[:8]}" can be
GeneratedIds(agent_type) ==
  IF agent_type = "mock" THEN {"mock_3f9a1c07"}
  ELSE IF agent_type = "trend" THEN {"trend_3f9a1c07"}
  ELSE {}

\* get_agent: self.agents.get(agent_id)
GetAgent(agts, agent_id) ==
  IF AgentIndex(agts, agent_id) = 0 THEN PyNone
  ELSE agts[AgentIndex(agts, agent_id)]

\* a create_agent that does not test agent_type
AgentTypeKnownAlways(agent_type, types) == TRUE

\* create_agent: "agent_type in self.agent_types"
AgentTypeKnown(agent_type, types) == agent_type \in types

\* create_agent: ValueError for an agent_type that is not registered;
\* otherwise an instance of the registered class is stored under the supplied
\* or generated id, in place of the instance stored there before if any
CreateAgent(agent_type, agent_id) ==
  IF ~AgentTypeKnown(agent_type, agent_types)
  THEN UNCHANGED vars
  ELSE \E id \in (IF agent_id = NoAgentId THEN GeneratedIds(agent_type)
                  ELSE {agent_id}) :
         /\ AgentIndex(agents, id) # 0 \/ Len(agents) < MaxAgents
         /\ agents' = IF AgentIndex(agents, id) # 0
                      THEN [agents EXCEPT ![AgentIndex(agents, id)] =
                               NewAgent(id, agent_type)]
                      ELSE Append(agents, NewAgent(id, agent_type))
         /\ tpLive' = (tpLive /\ tpAgent.agent_id # id)
         /\ rtLive' = (rtLive /\ rtAgent.agent_id # id)
         /\ UNCHANGED <<agent_types, running, task_queue, message_queue,
                        results_cache, tpPc, tpTask, tpAgent, tpReq, rtPc,
                        rtMsg, rtAgent, nextTask, sends, consumed, abandoned,
                        calls, capQuery, wkVars, grVars, timestamp, ccLast,
                        cbVars, mdVars>>

\* a start() that spawns workers whatever self.running is
StartReturnsEarlyNever(is_running) == FALSE

\* start: "if self.running: return"
StartReturnsEarly(is_running) == is_running

\* start
Start ==
  IF StartReturnsEarly(running)
  THEN UNCHANGED vars
  ELSE /\ running' = TRUE
       /\ worker_tasks' = <<"task_processor", "message_router">>
       /\ workers' = workers + 2
       /\ tpPc' = "idle"
       /\ rtPc' = "idle"
       /\ UNCHANGED <<agent_types, agents, task_queue, message_queue,
                      results_cache, tpTask, tpAgent, tpReq, tpLive, rtMsg,
                      rtAgent, rtLive, nextTask, sends, consumed, abandoned,
                      calls, capQuery, stopping, grVars, timestamp, ccLast,
                      cbVars, mdVars>>

\* a stop() that sets the flag and cancels nothing
StopCancelsNone(tasks, kind, pc) == FALSE

\* stop: task.cancel() reaches the worker of this kind when its task is in
\* _worker_tasks and it has not terminated
StopCancels(tasks, kind, pc) == InList(kind, tasks) /\ pc # "none"

\* stop: the flag is cleared, the workers in _worker_tasks are cancelled
\* wherever they are suspended and awaited, then _worker_tasks is cleared
Stop ==
  LET tpCancelled == StopCancels(worker_tasks, "task_processor", tpPc)
      rtCancelled == StopCancels(worker_tasks, "message_router", rtPc)
  IN
  /\ running' = FALSE
  /\ IF tpCancelled
     THEN /\ tpPc' = "none" /\ tpTask' = NoTask /\ tpAgent' = NoAgent
          /\ tpReq' = NoMessage /\ tpLive' = FALSE
          /\ abandoned' = IF tpPc = "awaiting"
                          THEN abandoned \cup {tpTask.task_id}
                          ELSE abandoned
     ELSE UNCHANGED <<tpPc, tpTask, tpAgent, tpReq, tpLive, abandoned>>
  /\ IF rtCancelled
     THEN /\ rtPc' = "none" /\ rtMsg' = NoMessage /\ rtAgent' = NoAgent
          /\ rtLive' = FALSE
     ELSE UNCHANGED <<rtPc, rtMsg, rtAgent, rtLive>>
  /\ workers' = workers - (IF tpCancelled THEN 1 ELSE 0)
                        - (IF rtCancelled THEN 1 ELSE 0)
  /\ worker_tasks' = <<>>
  /\ UNCHANGED <<agent_types, agents, task_queue, message_queue,
                 results_cache, nextTask, sends, consumed, calls, capQuery,
                 stopping, grVars, timestamp, ccLast, cbVars, mdVars>>

\* stop up to its await: the flag is cleared and the workers in _worker_tasks
\* are cancelled; a cancelled worker takes no further step, CancelledError is
\* raised at the await it is suspended in and no handler of it catches it.
\* The await suspends stop when there is a task to gather; asyncio.gather()
\* of nothing is over at once, which is Stop
StopBegin ==
  LET tpCancelled == StopCancels(worker_tasks, "task_processor", tpPc)
      rtCancelled == StopCancels(worker_tasks, "message_router", rtPc)
  IN
  /\ worker_tasks # <<>>
  /\ stopping < MaxStops
  /\ stopping' = stopping + 1
  /\ running' = FALSE
  /\ IF tpCancelled
     THEN /\ tpPc' = "none" /\ tpTask' = NoTask /\ tpAgent' = NoAgent
          /\ tpReq' = NoMessage /\ tpLive' = FALSE
          /\ abandoned' = IF tpPc = "awaiting"
                          THEN abandoned \cup {tpTask.task_id}
                          ELSE abandoned
     ELSE UNCHANGED <<tpPc, tpTask, tpAgent, tpReq, tpLive, abandoned>>
  /\ IF rtCancelled
     THEN /\ rtPc' = "none" /\ rtMsg' = NoMessage /\ rtAgent' = NoAgent
          /\ rtLive' = FALSE
     ELSE UNCHANGED <<rtPc, rtMsg, rtAgent, rtLive>>
  /\ workers' = workers - (IF tpCancelled THEN 1 ELSE 0)
                        - (IF rtCancelled THEN 1 ELSE 0)
  /\ UNCHANGED <<agent_types, agents, task_queue, message_queue,
                 results_cache, nextTask, sends, consumed, calls, capQuery,
                 worker_tasks, grVars, timestamp, ccLast, cbVars, mdVars>>

\* stop resumed once the gathered workers are over:
\* self._worker_tasks.clear() empties the list the attribute holds by then
StopEnd ==
  /\ stopping > 0
  /\ stopping' = stopping - 1
  /\ worker_tasks' = <<>>
  /\ UNCHANGED <<agent_types, agents, running, task_queue, message_queue,
                 results_cache, tpPc, tpTask, tpAgent, tpReq, tpLive, rtPc,
                 rtMsg, rtAgent, rtLive, nextTask, sends, consumed, abandoned,
                 calls, capQuery, workers, grVars, timestamp, ccLast, cbVars,
                 mdVars>>

\* _task_processor: "while self.running" read as False by a waiting worker
\* that was not cancelled, which ends its coroutine
TaskProcessorExit ==
  /\ ~running /\ tpPc = "idle"
  /\ tpPc' = "none"
  /\ workers' = workers - 1
  /\ UNCHANGED <<agent_types, agents, running, task_queue, message_queue,
                 results_cache, tpTask, tpAgent, tpReq, tpLive, rtPc,
                 rtMsg, rtAgent, rtLive, nextTask, sends, consumed, abandoned,
                 calls, capQuery, worker_tasks, stopping, grVars, timestamp,
                 ccLast, cbVars, mdVars>>

\* _message_router: "while self.running" read as False by a waiting worker
\* that was not cancelled, which ends its coroutine
MessageRouterExit ==
  /\ ~running /\ rtPc = "idle"
  /\ rtPc' = "none"
  /\ workers' = workers - 1
  /\ UNCHANGED <<agent_types, agents, running, task_queue, message_queue,
                 results_cache, tpPc, tpTask, tpAgent, tpReq, tpLive,
                 rtMsg, rtAgent, rtLive, nextTask, sends, consumed, abandoned,
                 calls, capQuery, worker_tasks, stopping, grVars, timestamp,
                 ccLast, cbVars, mdVars>>

\* submit_analysis_task
SubmitAnalysisTask(data, analysis_type) ==
  /\ nextTask < MaxTasks
  /\ nextTask' = nextTask + 1
  /\ task_queue' = Append(task_queue,
                          AnalysisTask(nextTask + 1, data, analysis_type))
  /\ UNCHANGED <<agent_types, agents, running, message_queue, results_cache,
                 tpPc, tpTask, tpAgent, tpReq, tpLive, rtPc, rtMsg, rtAgent,
                 rtLive, sends, consumed, abandoned, calls, capQuery, wkVars, grVars, timestamp, ccLast, cbVars, mdVars>>

\* messages handed to send_message by callers
ExternalMessages ==
  { AgentMessage(id, sender, recipient, message_type, [test |-> "data"], corr) :
      id \in MsgIds, sender \in {"test_sender", "a1"}, recipient \in AgentIds,
      message_type \in MessageType \cup {"BOGUS"}, corr \in {NoId} \cup MsgIds }

\* send_message
SendMessage(message) ==
  /\ sends < MaxSends
  /\ message.correlation_id # NoId => message.message_type = "RESPONSE"
  /\ sends' = sends + 1
  /\ message_queue' = Append(message_queue, message)
  /\ UNCHANGED <<agent_types, agents, running, task_queue, results_cache,
                 tpPc, tpTask, tpAgent, tpReq, tpLive, rtPc, rtMsg, rtAgent,
                 rtLive, nextTask, consumed, abandoned, calls, capQuery, wkVars, grVars, timestamp, ccLast, cbVars, mdVars>>

\* send_message handed an object that is no AgentMessage (None); at most one
\* of them waits in the queue
SendMalformed ==
  /\ ~InList(PyNone, message_queue)
  /\ message_queue' = Append(message_queue, PyNone)
  /\ UNCHANGED <<agent_types, agents, running, task_queue, results_cache,
                 tpPc, tpTask, tpAgent, tpReq, tpLive, rtPc, rtMsg, rtAgent,
                 rtLive, nextTask, sends, consumed, abandoned, calls, capQuery,
                 wkVars, grVars, timestamp, ccLast, cbVars, mdVars>>

(***************************************************************************)
(* _task_processor                                                         *)
(***************************************************************************)
\* one iteration up to the await of selected_agent.process_message
TaskProcessorGet ==
  /\ running /\ tpPc = "idle" /\ task_queue # <<>>
  /\ LET task == Head(task_queue) IN
     /\ task_queue' = QueueAfterGet(task_queue)
     /\ consumed' = consumed \cup {task.task_id}
     /\ IF DataTypeRaises(task.data)
        THEN UNCHANGED <<agents, results_cache, timestamp, tpPc, tpTask, tpAgent, tpReq,
                         tpLive, calls>>
        ELSE LET data_type == DetermineDataType(task.data)
                 capable_agents ==
                   GetAgentsByCapability(agents, task.analysis_type, data_type)
             IN
             IF capable_agents = <<>>
             THEN /\ results_cache' = CachePut(results_cache, task.task_id,
                                               NoCapableResult(task, data_type))
                  /\ timestamp' = CachePut(timestamp, task.task_id, now)
                  /\ UNCHANGED <<agents, tpPc, tpTask, tpAgent, tpReq, tpLive,
                                 calls>>
             ELSE LET selected_agent == SelectAgent(capable_agents)
                      id == FreshId({})
                  IN
                  /\ tpPc' = "awaiting"
                  /\ tpTask' = task
                  /\ tpAgent' = AgentRef(selected_agent)
                  /\ tpLive' = TRUE
                  /\ tpReq' = AgentMessage(id, "controller",
                                           selected_agent.agent_id, "REQUEST",
                                           RequestPayload(task), NoId)
                  /\ agents' = AgentsWith(agents, selected_agent.agent_id,
                                          TRUE, "status", "BUSY")
                  /\ calls' = [calls EXCEPT ![task.task_id] = @ + 1]
                  /\ UNCHANGED <<results_cache, timestamp>>
  /\ UNCHANGED <<agent_types, running, message_queue, rtPc, rtMsg, rtAgent,
                 rtLive, nextTask, sends, abandoned, capQuery, wkVars, grVars, ccLast, cbVars, mdVars>>

\* the rest of the iteration, once _process_request has returned or raised
TaskProcessorResume(outcome) ==
  /\ tpPc = "awaiting"
  /\ LET response == HandleRequestReply(tpAgent.agent_id, tpReq, outcome,
                                        FreshId({tpReq.id}))
     IN
     /\ agents' = AgentsWith(agents, tpAgent.agent_id, tpLive, "status",
                             HandleRequestStatus(outcome))
     /\ IF response.message_type = "RESPONSE"
        THEN IF IsDict(response.payload)
             THEN /\ results_cache' = CachePut(results_cache, tpTask.task_id,
                              ResponseResult(tpTask, tpAgent.agent_id, response))
                  /\ timestamp' = CachePut(timestamp, tpTask.task_id, now)
             ELSE UNCHANGED <<results_cache, timestamp>>
        ELSE IF response.message_type = "ERROR"
        THEN /\ results_cache' = CachePut(results_cache, tpTask.task_id,
                              ErrorResult(tpTask, tpAgent.agent_id, response))
             /\ timestamp' = CachePut(timestamp, tpTask.task_id, now)
        ELSE UNCHANGED <<results_cache, timestamp>>
     /\ task_queue' = QueueAfterOutcome(task_queue, tpTask, response)
  /\ tpPc' = "idle" /\ tpTask' = NoTask /\ tpAgent' = NoAgent
  /\ tpReq' = NoMessage /\ tpLive' = FALSE
  /\ UNCHANGED <<agent_types, running, message_queue, rtPc, rtMsg,
                 rtAgent, rtLive, nextTask, sends, consumed, abandoned, calls,
                 capQuery, wkVars, grVars, ccLast, cbVars, mdVars>>

(***************************************************************************)
(* _message_router                                                         *)
(***************************************************************************)
\* an object on the message queue that has the attributes of an AgentMessage
IsAgentMessage(message) == "recipient" \in DOMAIN message

\* a router whose coroutine ends when an iteration raises
AfterRoutingErrorEnds(pc) == "none"

\* _message_router: "except Exception: ... continue", back to the loop test
AfterRoutingError(pc) == pc

\* one iteration, up to the await of _process_request when the message is a
\* REQUEST and to the end of the iteration otherwise; an object without a
\* recipient makes message.recipient raise AttributeError
MessageRouterGet ==
  /\ running /\ rtPc = "idle" /\ message_queue # <<>>
  /\ LET message == Head(message_queue)
         idx == AgentIndex(agents, message.recipient)
     IN
     IF ~IsAgentMessage(message)
     THEN /\ message_queue' = Tail(message_queue)
          /\ rtPc' = AfterRoutingError(rtPc)
          /\ UNCHANGED <<agents, rtMsg, rtAgent, rtLive>>
     ELSE IF idx = 0
     THEN /\ message_queue' = Tail(message_queue)
          /\ UNCHANGED <<agents, rtPc, rtMsg, rtAgent, rtLive>>
     ELSE IF message.message_type = "REQUEST"
     THEN /\ message_queue' = Tail(message_queue)
          /\ agents' = AgentsWith(agents, message.recipient, TRUE, "status", "BUSY")
          /\ rtPc' = "awaiting"
          /\ rtMsg' = message
          /\ rtAgent' = AgentRef(agents[idx])
          /\ rtLive' = TRUE
     ELSE LET response == ProcessOtherReply(message.recipient, message,
                                            FreshId({message.id}))
          IN
          /\ agents' = AgentsWith(agents, message.recipient, TRUE,
                                  "results_cache",
                                  HandleOtherCache(agents[idx], message))
          /\ message_queue' = IF response = NoMessage
                              THEN Tail(message_queue)
                              ELSE Append(Tail(message_queue), response)
          /\ UNCHANGED <<rtPc, rtMsg, rtAgent, rtLive>>
  /\ UNCHANGED <<agent_types, running, task_queue, results_cache, tpPc, tpTask,
                 tpAgent, tpReq, tpLive, nextTask, sends, consumed, abandoned,
                 calls, capQuery, wkVars, grVars, timestamp, ccLast, cbVars, mdVars>>

\* the rest of the iteration, once _process_request has returned or raised
MessageRouterResume(outcome) ==
  /\ rtPc = "awaiting"
  /\ LET response == HandleRequestReply(rtAgent.agent_id, rtMsg, outcome,
                                        FreshId({rtMsg.id}))
     IN
     /\ agents' = AgentsWith(agents, rtAgent.agent_id, rtLive, "status",
                             HandleRequestStatus(outcome))
     /\ message_queue' = Append(message_queue, response)
  /\ rtPc' = "idle" /\ rtMsg' = NoMessage /\ rtAgent' = NoAgent
  /\ rtLive' = FALSE
  /\ UNCHANGED <<agent_types, running, task_queue, results_cache, tpPc, tpTask,
                 tpAgent, tpReq, tpLive, nextTask, sends, consumed, abandoned,
                 calls, capQuery, wkVars, grVars, timestamp, ccLast, cbVars, mdVars>>

(***************************************************************************)
(* get_analysis_result and execute_analysis_pipeline.  The loop of         *)
(* get_analysis_result tests the elapsed time, looks into results_cache    *)
(* and sleeps 0.1 s; grLeft is the number of iterations whose time test    *)
(* still passes, and the deadline start_time + timeout lies in the sleep   *)
(* that follows the last of them.                                          *)
(***************************************************************************)
NoResult == PyNone

TimeoutError == [raised |-> "TimeoutError"]

\* get_analysis_result taking the result out of the cache when it returns it
CacheAfterReadPop(cache, task_id) ==
  [t \in DOMAIN cache \ {task_id} |-> cache[t]]

\* get_analysis_result: results_cache after "return self.results_cache[task_id]"
CacheAfterRead(cache, task_id) == cache

\* execute_analysis_pipeline handing on the None of get_analysis_result
TimeoutValueNone(kind) == NoResult

\* what the caller gets when the loop ends without a result:
\* get_analysis_result returns None, execute_analysis_pipeline raises
TimeoutValue(kind) == IF kind = "pipeline" THEN TimeoutError ELSE NoResult

\* whether a result for task_id is cached at the time the deadline passes
SeenAtDeadline(cache, task_id) ==
  IF task_id \in DOMAIN cache THEN "in_time" ELSE "late"

\* get_analysis_result(task_id, timeout) called directly; n = 0 is a timeout
\* that is not positive
GetAnalysisResult(task_id, n) ==
  /\ grPc \in {"idle", "done"}
  /\ grPc' = "polling"
  /\ grKind' = "get"
  /\ grTask' = task_id
  /\ grLeft' = n
  /\ grPolled' = FALSE
  /\ grSeen' = IF n = 0 THEN SeenAtDeadline(results_cache, task_id) ELSE "open"
  /\ grResult' = NoResult
  /\ UNCHANGED <<agent_types, agents, running, task_queue, message_queue,
                 results_cache, tpPc, tpTask, tpAgent, tpReq, tpLive, rtPc,
                 rtMsg, rtAgent, rtLive, nextTask, sends, consumed, abandoned,
                 calls, capQuery, wkVars, timestamp, ccLast, cbVars, mdVars>>

\* execute_analysis_pipeline up to its first suspension inside
\* get_analysis_result (the default timeout is positive)
ExecuteAnalysisPipeline(data, analysis_type) ==
  /\ grPc \in {"idle", "done"}
  /\ nextTask < MaxTasks
  /\ nextTask' = nextTask + 1
  /\ task_queue' = Append(task_queue,
                          AnalysisTask(nextTask + 1, data, analysis_type))
  /\ grPc' = "polling"
  /\ grKind' = "pipeline"
  /\ grTask' = nextTask + 1
  /\ grLeft' = MaxPolls
  /\ grPolled' = FALSE
  /\ grSeen' = "open"
  /\ grResult' = NoResult
  /\ UNCHANGED <<agent_types, agents, running, message_queue, results_cache,
                 tpPc, tpTask, tpAgent, tpReq, tpLive, rtPc, rtMsg, rtAgent,
                 rtLive, sends, consumed, abandoned, calls, capQuery, wkVars,
                 timestamp, ccLast, cbVars, mdVars>>

\* one iteration of the loop whose time test passes
WaiterPoll ==
  /\ grPc = "polling" /\ grLeft > 0
  /\ grPolled' = TRUE
  /\ IF grTask \in DOMAIN results_cache
     THEN /\ grPc' = "done"
          /\ grResult' = results_cache[grTask]
          /\ grSeen' = "in_time"
          /\ results_cache' = CacheAfterRead(results_cache, grTask)
          /\ UNCHANGED grLeft
     ELSE /\ grLeft' = grLeft - 1
          /\ UNCHANGED <<grPc, grResult, grSeen, results_cache>>
  /\ UNCHANGED <<agent_types, agents, running, task_queue, message_queue,
                 tpPc, tpTask, tpAgent, tpReq, tpLive, rtPc, rtMsg, rtAgent,
                 rtLive, nextTask, sends, consumed, abandoned, calls, capQuery,
                 wkVars, grKind, grTask, timestamp, ccLast, cbVars, mdVars>>

\* start_time + timeout passes while the loop sleeps for the last time
WaiterDeadline ==
  /\ grPc = "polling" /\ grLeft = 0 /\ grSeen = "open"
  /\ grSeen' = SeenAtDeadline(results_cache, grTask)
  /\ UNCHANGED <<agent_types, agents, running, task_queue, message_queue,
                 results_cache, tpPc, tpTask, tpAgent, tpReq, tpLive, rtPc,
                 rtMsg, rtAgent, rtLive, nextTask, sends, consumed, abandoned,
                 calls, capQuery, wkVars, grPc, grKind, grTask, grLeft,
                 grPolled, grResult, timestamp, ccLast, cbVars, mdVars>>

\* the time test fails: the loop ends without a result
WaiterTimeout ==
  /\ grPc = "polling" /\ grLeft = 0 /\ grSeen # "open"
  /\ grPc' = "done"
  /\ grResult' = TimeoutValue(grKind)
  /\ UNCHANGED <<agent_types, agents, running, task_queue, message_queue,
                 results_cache, tpPc, tpTask, tpAgent, tpReq, tpLive, rtPc,
                 rtMsg, rtAgent, rtLive, nextTask, sends, consumed, abandoned,
                 calls, capQuery, wkVars, grKind, grTask, grLeft, grPolled,
                 grSeen, timestamp, ccLast, cbVars, mdVars>>

(***************************************************************************)
(* clear_cache                                                             *)
(***************************************************************************)
\* a clear_cache that also removes the results whose age equals max_age
IsExpiredAtAge(current_time, result_timestamp, max_age_seconds) ==
  current_time - result_timestamp >= max_age_seconds

\* clear_cache: the test that puts a key into expired_keys
IsExpired(current_time, result_timestamp, max_age_seconds) ==
  current_time - result_timestamp > max_age_seconds

\* clear_cache
ClearCache(max_age_seconds) ==
  LET current_time == now
      expired_keys ==
        {key \in DOMAIN results_cache :
           IsExpired(current_time, timestamp[key], max_age_seconds)}
  IN
  /\ results_cache' = [key \in DOMAIN results_cache \ expired_keys |->
                         results_cache[key]]
  /\ timestamp' = [key \in DOMAIN timestamp \ expired_keys |-> timestamp[key]]
  /\ ccLast' = [op |-> "clear_cache", max_age |-> max_age_seconds,
                ages |-> [key \in DOMAIN results_cache |->
                            current_time - timestamp[key]]]
  /\ UNCHANGED <<agent_types, agents, running, task_queue, message_queue,
                 tpPc, tpTask, tpAgent, tpReq, tpLive, rtPc, rtMsg, rtAgent,
                 rtLive, nextTask, sends, consumed, abandoned, calls, capQuery,
                 wkVars, grVars, cbVars, mdVars>>

(***************************************************************************)
(* ollama_client.py: CircuitBreaker                                        *)
(***************************************************************************)
DefaultFailureThreshold == 5

DefaultRecoveryTimeout == 60

DefaultMaxRetries == 3

\* time.time() when the client is constructed: later than any
\* recovery_timeout after last_failure_time = 0
Epoch == MaxRecovery + 1

\* CircuitBreaker.__init__
NewCircuitBreaker(failure_threshold, recovery_timeout) ==
  [failure_threshold |-> failure_threshold,
   recovery_timeout |-> recovery_timeout,
   failure_count |-> 0,
   last_failure_time |-> 0,
   state |-> "closed"]

\* can_execute admitting the probe as soon as recovery_timeout is reached
CanExecuteAtTimeout(cb, t) ==
  IF cb.state = "closed" THEN TRUE
  ELSE IF cb.state = "open"
  THEN t - cb.last_failure_time >= cb.recovery_timeout
  ELSE TRUE

\* CircuitBreaker.can_execute: the value returned at time t
CanExecute(cb, t) ==
  IF cb.state = "closed" THEN TRUE
  ELSE IF cb.state = "open"
  THEN t - cb.last_failure_time > cb.recovery_timeout
  ELSE TRUE

\* can_execute closing the breaker once recovery_timeout has passed
AfterCanExecuteClosed(cb, t) ==
  IF cb.state = "open" /\ t - cb.last_failure_time > cb.recovery_timeout
  THEN [cb EXCEPT !.state = "closed"]
  ELSE cb

\* CircuitBreaker.can_execute: the breaker afterwards
AfterCanExecute(cb, t) ==
  IF cb.state = "open" /\ t - cb.last_failure_time > cb.recovery_timeout
  THEN [cb EXCEPT !.state = "half-open"]
  ELSE cb

\* record_success that closes the breaker and keeps failure_count
RecordSuccessKeepCount(cb) == [cb EXCEPT !.state = "closed"]

\* CircuitBreaker.record_success
RecordSuccess(cb) == [cb EXCEPT !.failure_count = 0, !.state = "closed"]

\* record_failure that keeps the time of the failure that opened the breaker
RecordFailureKeepTime(cb, t) ==
  LET counted == [cb EXCEPT !.failure_count = @ + 1,
                            !.last_failure_time =
                               IF cb.state = "closed" THEN t ELSE @]
  IN IF counted.failure_count >= counted.failure_threshold
     THEN [counted EXCEPT !.state = "open"]
     ELSE counted

\* CircuitBreaker.record_failure at time t
RecordFailure(cb, t) ==
  LET counted == [cb EXCEPT !.failure_count = @ + 1, !.last_failure_time = t]
  IN IF counted.failure_count >= counted.failure_threshold
     THEN [counted EXCEPT !.state = "open"]
     ELSE counted

NoOp == [op |-> "none", result |-> FALSE, from |-> ""]

\* OllamaClient.current_model = None
NoModel == "<None>"

NoCall ==
  [op |-> "none", name |-> NoModel, raised |-> FALSE, value |-> "",
   names |-> <<>>, httpCalls |-> 0]

\* OllamaClient.__init__ with the default breaker and max_retries of the
\* configuration
ClientInit ==
  /\ circuit_breaker = NewCircuitBreaker(DefaultFailureThreshold,
                                         DefaultRecoveryTimeout)
  /\ max_retries = DefaultMaxRetries
  /\ now = Epoch
  /\ rqPc = "idle" /\ attempt = 0 /\ httpCalls = 0 /\ script = 0
  /\ rejected = FALSE /\ rqResult = "none"
  /\ streak = 0
  /\ cbLast = NoOp
  /\ current_model = NoModel
  /\ available_models = EmptyDict
  /\ mdLast = NoCall

\* a client whose breaker and max_retries were configured by the caller
ClientInitAny ==
  /\ \E ft \in 1..MaxThreshold, rt \in 0..MaxRecovery :
       circuit_breaker = NewCircuitBreaker(ft, rt)
  /\ max_retries \in 0..MaxRetries
  /\ now = Epoch
  /\ rqPc = "idle" /\ attempt = 0 /\ httpCalls = 0 /\ script = 0
  /\ rejected = FALSE /\ rqResult = "none"
  /\ streak = 0
  /\ cbLast = NoOp
  /\ current_model = NoModel
  /\ available_models = EmptyDict
  /\ mdLast = NoCall

\* a client whose breaker opens at the first failure or at the threshold of
\* the bounds and recovers after one time unit
ClientInitModel ==
  /\ \E ft \in {1, MaxThreshold} :
       circuit_breaker = NewCircuitBreaker(ft, 1)
  /\ max_retries \in {0, MaxRetries}
  /\ now = Epoch
  /\ rqPc = "idle" /\ attempt = 0 /\ httpCalls = 0 /\ script = 0
  /\ rejected = FALSE /\ rqResult = "none"
  /\ streak = 0
  /\ cbLast = NoOp
  /\ current_model = NoModel
  /\ available_models = EmptyDict
  /\ mdLast = NoCall

\* time passes
Tick ==
  /\ now < Epoch + MaxTime
  /\ now' = now + 1
  /\ UNCHANGED <<circuit_breaker, max_retries, rqPc, attempt, httpCalls,
                 script, rejected, rqResult, streak, cbLast, ctlVars, mdVars>>

\* a call of circuit_breaker.can_execute()
CanExecuteCall ==
  /\ cbLast' = [op |-> "can_execute",
                result |-> CanExecute(circuit_breaker, now),
                from |-> circuit_breaker.state]
  /\ circuit_breaker' = AfterCanExecute(circuit_breaker, now)
  /\ UNCHANGED <<max_retries, now, rqPc, attempt, httpCalls, script, rejected,
                 rqResult, streak, ctlVars, mdVars>>

\* a call of circuit_breaker.record_success()
RecordSuccessCall ==
  /\ cbLast' = [op |-> "record_success", result |-> FALSE,
                from |-> circuit_breaker.state]
  /\ circuit_breaker' = RecordSuccess(circuit_breaker)
  /\ streak' = 0
  /\ UNCHANGED <<max_retries, now, rqPc, attempt, httpCalls, script, rejected,
                 rqResult, ctlVars, mdVars>>

\* a call of circuit_breaker.record_failure()
RecordFailureCall ==
  /\ circuit_breaker.failure_count < MaxFailures
  /\ cbLast' = [op |-> "record_failure", result |-> FALSE,
                from |-> circuit_breaker.state]
  /\ circuit_breaker' = RecordFailure(circuit_breaker, now)
  /\ streak' = streak + 1
  /\ UNCHANGED <<max_retries, now, rqPc, attempt, httpCalls, script, rejected,
                 rqResult, ctlVars, mdVars>>

(***************************************************************************)
(* ollama_client.py: OllamaClient._make_sync_request                       *)
(***************************************************************************)
RECURSIVE Pow2(_)
Pow2(n) == IF n = 0 THEN 1 ELSE 2 * Pow2(n - 1)

\* the retry loop running range(max_retries) instead of range(max_retries + 1)
IsLastAttemptEarly(a, retries) == a + 1 >= retries

\* attempt == self.max_retries
IsLastAttempt(a, retries) == a = retries

\* a caller starts a request; the transport will fail n calls, then answer 200
RequestStart(n) ==
  /\ rqPc \in {"idle", "done"}
  /\ rqPc' = "attempt"
  /\ attempt' = 0
  /\ httpCalls' = 0
  /\ script' = n
  /\ rejected' = FALSE
  /\ rqResult' = "none"
  /\ UNCHANGED <<circuit_breaker, max_retries, now, streak, cbLast, ctlVars, mdVars>>

\* one iteration of the retry loop; failure is what a failing call does:
\* "error" raises or answers a status raise_for_status rejects, "soft" answers
\* a status other than 200 that raise_for_status accepts
RequestAttempt(failure) ==
  /\ rqPc = "attempt"
  /\ IF ~CanExecute(circuit_breaker, now)
     THEN \* raise Exception("Circuit breaker is open"), caught by the handler
          /\ circuit_breaker.failure_count < MaxFailures
          /\ circuit_breaker' =
               RecordFailure(AfterCanExecute(circuit_breaker, now), now)
          /\ streak' = streak + 1
          /\ rejected' = TRUE
          /\ IF IsLastAttempt(attempt, max_retries)
             THEN /\ rqPc' = "done" /\ rqResult' = "breaker_open"
                  /\ UNCHANGED <<attempt, now>>
             ELSE /\ now + Pow2(attempt) <= Epoch + MaxTime
                  /\ now' = now + Pow2(attempt)
                  /\ attempt' = attempt + 1
                  /\ UNCHANGED <<rqPc, rqResult>>
          /\ UNCHANGED httpCalls
     ELSE /\ httpCalls' = httpCalls + 1
          /\ IF httpCalls >= script
             THEN \* status 200
                  /\ circuit_breaker' =
                       RecordSuccess(AfterCanExecute(circuit_breaker, now))
                  /\ streak' = 0
                  /\ rqPc' = "done" /\ rqResult' = "ok"
                  /\ UNCHANGED <<attempt, now, rejected>>
             ELSE IF failure = "error"
             THEN /\ circuit_breaker.failure_count < MaxFailures
                  /\ circuit_breaker' =
                       RecordFailure(AfterCanExecute(circuit_breaker, now), now)
                  /\ streak' = streak + 1
                  /\ IF IsLastAttempt(attempt, max_retries)
                     THEN /\ rqPc' = "done" /\ rqResult' = "transport_error"
                          /\ UNCHANGED <<attempt, now>>
                     ELSE /\ now + Pow2(attempt) <= Epoch + MaxTime
                          /\ now' = now + Pow2(attempt)
                          /\ attempt' = attempt + 1
                          /\ UNCHANGED <<rqPc, rqResult>>
                  /\ UNCHANGED rejected
             ELSE \* no exception: the loop goes on without recording anything
                  /\ circuit_breaker' = AfterCanExecute(circuit_breaker, now)
                  /\ IF IsLastAttempt(attempt, max_retries)
                     THEN /\ rqPc' = "done" /\ rqResult' = "exhausted"
                          /\ UNCHANGED attempt
                     ELSE /\ attempt' = attempt + 1
                          /\ UNCHANGED <<rqPc, rqResult>>
                  /\ UNCHANGED <<now, rejected, streak>>
  /\ UNCHANGED <<max_retries, script, cbLast, ctlVars, mdVars>>

(***************************************************************************)
(* ollama_client.py: OllamaClient model management.  load_model,           *)
(* list_models, delete_model and generate_response call the blocking       *)
(* _make_sync_request and never suspend before it returns, so each call    *)
(* is one step.                                                            *)
(***************************************************************************)
ModelNames == {"llama2", "mistral"}

\* how a call ended: value is what it returned ("True", "False", the text of
\* a response, "list" for the list in names) or the error it raised
CallResult(op, name, raised, value, names, made) ==
  [op |-> op, name |-> name, raised |-> raised, value |-> value,
   names |-> names, httpCalls |-> made]

\* a bool as a call returns it
PyBool(b) == IF b THEN "True" ELSE "False"

\* _make_sync_request run to its end from attempt a at time t: the transport
\* fails n calls (as in RequestAttempt) and then answers 200; made counts the
\* requests.request calls and recorded the record_failure calls so far
RECURSIVE MakeSyncRequest(_, _, _, _, _, _, _, _)
MakeSyncRequest(cb, t, a, retries, made, recorded, n, failure) ==
  IF ~CanExecute(cb, t)
  THEN LET failed == RecordFailure(AfterCanExecute(cb, t), t) IN
       IF IsLastAttempt(a, retries)
       THEN [result |-> "breaker_open", circuit_breaker |-> failed, now |-> t,
             httpCalls |-> made, recorded |-> recorded + 1]
       ELSE MakeSyncRequest(failed, t + Pow2(a), a + 1, retries, made,
                            recorded + 1, n, failure)
  ELSE IF made >= n
  THEN [result |-> "ok",
        circuit_breaker |-> RecordSuccess(AfterCanExecute(cb, t)), now |-> t,
        httpCalls |-> made + 1, recorded |-> 0]
  ELSE IF failure = "error"
  THEN LET failed == RecordFailure(AfterCanExecute(cb, t), t) IN
       IF IsLastAttempt(a, retries)
       THEN [result |-> "transport_error", circuit_breaker |-> failed,
             now |-> t, httpCalls |-> made + 1, recorded |-> recorded + 1]
       ELSE MakeSyncRequest(failed, t + Pow2(a), a + 1, retries, made + 1,
                            recorded + 1, n, failure)
  ELSE IF IsLastAttempt(a, retries)
       THEN [result |-> "exhausted",
             circuit_breaker |-> AfterCanExecute(cb, t), now |-> t,
             httpCalls |-> made + 1, recorded |-> recorded]
       ELSE MakeSyncRequest(AfterCanExecute(cb, t), t, a + 1, retries,
                            made + 1, recorded, n, failure)

\* the request stays within the time and the failure count explored
WithinBounds(r) ==
  /\ r.now <= Epoch + MaxTime
  /\ r.circuit_breaker.failure_count <= MaxFailures

\* what a call leaves of the client apart from its model bookkeeping
AfterRequest(r) ==
  /\ circuit_breaker' = r.circuit_breaker
  /\ now' = r.now
  /\ streak' = IF r.result = "ok" THEN 0 ELSE streak + r.recorded
  /\ UNCHANGED <<max_retries, rqPc, attempt, httpCalls, script, rejected,
                 rqResult, cbLast, ctlVars>>

\* self.available_models[model_name].status = status, for a known model
WithStatus(models, model_name, status) ==
  IF model_name \in DOMAIN models
  THEN [models EXCEPT ![model_name] = status]
  ELSE models

\* a load_model that makes the model current before it knows the outcome
LoadedModelEager(current, model_name, result) == model_name

\* load_model: current_model once _make_sync_request is over
LoadedModel(current, model_name, result) ==
  IF result = "ok" THEN model_name ELSE current

\* load_model
LoadModel(model_name, n, failure) ==
  IF current_model = model_name
  THEN /\ mdLast' = CallResult("load_model", model_name, FALSE, "True", <<>>, 0)
       /\ UNCHANGED <<current_model, available_models, cbVars, ctlVars>>
  ELSE \E r \in {MakeSyncRequest(circuit_breaker, now, 0, max_retries, 0, 0,
                                  n, failure)} :
       /\ WithinBounds(r)
       /\ AfterRequest(r)
       /\ current_model' = LoadedModel(current_model, model_name, r.result)
       /\ available_models' =
            WithStatus(available_models, model_name,
                       IF r.result = "ok" THEN "available" ELSE "error")
       /\ mdLast' = CallResult("load_model", model_name, FALSE,
                               PyBool(r.result = "ok"), <<>>, r.httpCalls)

\* a delete_model that clears current_model whichever model was deleted
CurrentAfterDeleteAny(current, model_name) == NoModel

\* delete_model: "if self.current_model == model_name: self.current_model = None"
CurrentAfterDelete(current, model_name) ==
  IF current = model_name THEN NoModel ELSE current

\* delete_model
DeleteModel(model_name, n, failure) ==
  \E r \in {MakeSyncRequest(circuit_breaker, now, 0, max_retries, 0, 0, n,
                             failure)} :
  /\ WithinBounds(r)
  /\ AfterRequest(r)
  /\ IF r.result = "ok"
     THEN /\ available_models' =
               [m \in DOMAIN available_models \ {model_name} |->
                  available_models[m]]
          /\ current_model' = CurrentAfterDelete(current_model, model_name)
     ELSE UNCHANGED <<available_models, current_model>>
  /\ mdLast' = CallResult("delete_model", model_name, FALSE,
                          PyBool(r.result = "ok"), <<>>, r.httpCalls)

\* a generate_response that sends the request whatever current_model is
NoModelLoadedNever(current) == FALSE

\* generate_response: "if not self.current_model"
NoModelLoaded(current) == current = NoModel

\* generate_response; with stream the request goes through the aiohttp
\* session, past the retry loop and the circuit breaker
GenerateResponse(stream, n, failure) ==
  IF NoModelLoaded(current_model)
  THEN /\ mdLast' = CallResult("generate_response", current_model, TRUE,
                               "No model loaded", <<>>, 0)
       /\ UNCHANGED <<current_model, available_models, cbVars, ctlVars>>
  ELSE IF stream
  THEN /\ mdLast' = IF n = 0
                    THEN CallResult("generate_response", current_model, FALSE,
                                    "response", <<>>, 1)
                    ELSE CallResult("generate_response", current_model, TRUE,
                                    "transport_error", <<>>, 1)
       /\ UNCHANGED <<current_model, available_models, cbVars, ctlVars>>
  ELSE \E r \in {MakeSyncRequest(circuit_breaker, now, 0, max_retries, 0, 0,
                                  n, failure)} :
       /\ WithinBounds(r)
       /\ AfterRequest(r)
       /\ mdLast' = IF r.result = "ok"
                    THEN CallResult("generate_response", current_model, FALSE,
                                    "response", <<>>, r.httpCalls)
                    ELSE CallResult("generate_response", current_model, TRUE,
                                    r.result, <<>>, r.httpCalls)
       /\ UNCHANGED <<current_model, available_models>>

\* an entry of "models" in the body of GET /api/tags; one without "name"
\* makes model_data["name"] raise KeyError
ModelEntry(name) == [name |-> name]

NamelessEntry == [size |-> 0]

\* bodies answered with status 200: well-formed lists of entries, a list
\* with a nameless entry, and a body response.json() cannot decode
ListBodies ==
  { [decodes |-> TRUE, models |-> l] :
      l \in {<<>>} \cup { <<ModelEntry(a)>> : a \in ModelNames }
              \cup { <<ModelEntry("llama2"), ModelEntry("mistral")>>,
                      <<ModelEntry("llama2"), NamelessEntry>> } }
  \cup { [decodes |-> FALSE, models |-> <<>>] }

\* list_models: the loop over data.get("models", []), up to the entry that
\* raises if there is one
RECURSIVE ListLoop(_, _, _)
ListLoop(entries, names, models) ==
  IF entries = <<>>
  THEN [raised |-> FALSE, names |-> names, models |-> models]
  ELSE IF "name" \notin DOMAIN Head(entries)
  THEN [raised |-> TRUE, names |-> names, models |-> models]
  ELSE LET model_name == Head(entries).name IN
       ListLoop(Tail(entries), Append(names, model_name),
                [m \in DOMAIN models \cup {model_name} |->
                   IF m = model_name THEN "available" ELSE models[m]])

\* a list_models that empties available_models when the request fails
ModelsAfterFailureCleared(models) == EmptyDict

\* list_models: available_models after a request that raised
ModelsAfterFailure(models) == models

\* list_models
ListModels(body, n, failure) ==
  \E r \in {MakeSyncRequest(circuit_breaker, now, 0, max_retries, 0, 0, n,
                             failure)},
     loop \in {ListLoop(body.models, <<>>, EmptyDict)} :
  /\ WithinBounds(r)
  /\ AfterRequest(r)
  /\ UNCHANGED current_model
  /\ IF r.result # "ok"
     THEN /\ available_models' = ModelsAfterFailure(available_models)
          /\ mdLast' = CallResult("list_models", NoModel, FALSE, "list", <<>>,
                                  r.httpCalls)
     ELSE IF ~body.decodes
     THEN /\ UNCHANGED available_models
          /\ mdLast' = CallResult("list_models", NoModel, FALSE, "list", <<>>,
                                  r.httpCalls)
     ELSE /\ available_models' = loop.models
          /\ mdLast' = CallResult("list_models", NoModel, FALSE, "list",
                                  IF loop.raised THEN <<>> ELSE loop.names,
                                  r.httpCalls)

(***************************************************************************)
(* Calls of can_handle and get_agents_by_capability on any agent           *)
(* population.                                                             *)
(***************************************************************************)
QueryAnalysisTypes == {"test_analysis", "trend_analysis", "unknown_x"}

QueryDataTypes == {"numerical", "time_series", "mixed"}

LiveAgents ==
  { [agent_id |-> a, cls |-> c, status |-> st, results_cache |-> EmptyDict] :
      a \in AgentIds, c \in AgentClasses, st \in {"IDLE", "BUSY", "ERROR"} }

\* the agents dict of a controller on which create_agent was called at most
\* MaxAgents times
AgentPopulations ==
  {<<>>} \cup { <<a>> : a \in LiveAgents }
         \cup { p \in { <<a, b>> : a \in LiveAgents, b \in LiveAgents } :
                  p[1].agent_id # p[2].agent_id }

CapInit ==
  /\ agent_types = AgentClasses
  /\ agents \in {p \in AgentPopulations : Len(p) <= MaxAgents}
  /\ running = FALSE
  /\ task_queue = <<>>
  /\ message_queue = <<>>
  /\ results_cache = EmptyDict
  /\ timestamp = EmptyDict
  /\ ccLast = NoClear
  /\ tpPc = "none" /\ tpTask = NoTask /\ tpAgent = NoAgent /\ tpReq = NoMessage
  /\ tpLive = FALSE
  /\ rtPc = "none" /\ rtMsg = NoMessage /\ rtAgent = NoAgent /\ rtLive = FALSE
  /\ nextTask = 0
  /\ sends = 0
  /\ consumed = {}
  /\ abandoned = {}
  /\ calls = [t \in 1..MaxTasks |-> 0]
  /\ capQuery = NoQuery
  /\ worker_tasks = <<>>
  /\ workers = 0
  /\ stopping = 0
  /\ grPc = "idle" /\ grKind = "none" /\ grTask = 0 /\ grLeft = 0
  /\ grPolled = FALSE /\ grSeen = "open" /\ grResult = PyNone

\* agent.can_handle(analysis_type, data_type) on a live agent
CanHandleCall(i, analysis_type, data_type) ==
  /\ i \in 1..Len(agents)
  /\ capQuery' = [op |-> "can_handle", agent |-> AgentRef(agents[i]),
                  analysis_type |-> analysis_type, data_type |-> data_type,
                  answer |-> CanHandle(agents[i], analysis_type, data_type),
                  result |-> <<>>]
  /\ UNCHANGED <<agent_types, agents, running, task_queue, message_queue,
                 results_cache, tpPc, tpTask, tpAgent, tpReq, tpLive, rtPc,
                 rtMsg, rtAgent, rtLive, nextTask, sends, consumed, abandoned,
                 calls, wkVars, grVars, timestamp, ccLast, cbVars, mdVars>>

\* controller.get_agents_by_capability(analysis_type, data_type)
GetAgentsByCapabilityCall(analysis_type, data_type) ==
  /\ capQuery' = [op |-> "get_agents_by_capability", agent |-> NoAgent,
                  analysis_type |-> analysis_type, data_type |-> data_type,
                  answer |-> FALSE,
                  result |-> GetAgentsByCapability(agents, analysis_type,
                                                   data_type)]
  /\ UNCHANGED <<agent_types, agents, running, task_queue, message_queue,
                 results_cache, tpPc, tpTask, tpAgent, tpReq, tpLive, rtPc,
                 rtMsg, rtAgent, rtLive, nextTask, sends, consumed, abandoned,
                 calls, wkVars, grVars, timestamp, ccLast, cbVars, mdVars>>

CapNext ==
  \/ \E i \in 1..MaxAgents, at \in QueryAnalysisTypes, dt \in QueryDataTypes :
       CanHandleCall(i, at, dt)
  \/ \E at \in QueryAnalysisTypes, dt \in QueryDataTypes :
       GetAgentsByCapabilityCall(at, dt)

\* operations on the controller's registry and its workers
AdminNext(classes) ==
  \/ \E t \in classes : RegisterAgentType(t)
  \/ \E t \in classes, a \in AgentIds : CreateAgent(t, a)
  \/ Start
  \/ Stop

\* the task pipeline: submit_analysis_task and _task_processor
TaskNext ==
  \/ AdminNext(AgentClasses)
  \/ \E d \in DataSets, at \in AnalysisTypes : SubmitAnalysisTask(d, at)
  \/ TaskProcessorGet
  \/ \E outcome \in Outcomes : TaskProcessorResume(outcome)

\* callers waiting for results: get_analysis_result and
\* execute_analysis_pipeline next to the task pipeline with one agent class
WaitNext ==
  \/ AdminNext({"mock"})
  \/ \E d \in {NumFrame, PyNone} : SubmitAnalysisTask(d, "test_analysis")
  \/ TaskProcessorGet
  \/ \E outcome \in Outcomes : TaskProcessorResume(outcome)
  \/ \E t \in 1..MaxTasks, n \in 0..MaxPolls : GetAnalysisResult(t, n)
  \/ \E d \in {NumFrame, PyNone} : ExecuteAnalysisPipeline(d, "test_analysis")
  \/ WaiterPoll
  \/ WaiterDeadline
  \/ WaiterTimeout

\* message routing: send_message and _message_router; the router never reads
\* an agent's capabilities, one agent class is enough
RouterNext ==
  \/ AdminNext({"mock"})
  \/ \E m \in ExternalMessages : SendMessage(m)
  \/ MessageRouterGet
  \/ \E outcome \in Outcomes : MessageRouterResume(outcome)

\* agents served by both workers: requests dispatched by the task processor
\* and messages of every type delivered by the message router
AgentNext ==
  \/ RegisterAgentType("mock")
  \/ CreateAgent("mock", "a1")
  \/ Start
  \/ SubmitAnalysisTask(NumFrame, "test_analysis")
  \/ TaskProcessorGet
  \/ \E outcome \in Outcomes : TaskProcessorResume(outcome)
  \/ \E m \in {e \in ExternalMessages :
                  e.sender = "test_sender" /\ e.id = 1} : SendMessage(m)
  \/ MessageRouterGet
  \/ \E outcome \in Outcomes : MessageRouterResume(outcome)

\* agents created under supplied and generated ids while tasks are dispatched
RegistryNext ==
  \/ AdminNext(AgentClasses)
  \/ \E t \in AgentClasses : CreateAgent(t, NoAgentId)
  \/ SubmitAnalysisTask(NumFrame, "test_analysis")
  \/ TaskProcessorGet
  \/ \E outcome \in Outcomes : TaskProcessorResume(outcome)

\* results cached over time, read by callers and evicted by clear_cache
CacheNext ==
  \/ RegisterAgentType("mock")
  \/ CreateAgent("mock", "a1")
  \/ Start
  \/ \E at \in AnalysisTypes : SubmitAnalysisTask(NumFrame, at)
  \/ TaskProcessorGet
  \/ \E outcome \in Outcomes : TaskProcessorResume(outcome)
  \/ Tick
  \/ \E max_age_seconds \in 0..MaxAge : ClearCache(max_age_seconds)
  \/ \E t \in 1..MaxTasks : GetAnalysisResult(t, 1)
  \/ WaiterPoll
  \/ WaiterDeadline
  \/ WaiterTimeout

\* tasks over every kind of DataFrame, dispatched by data type to one agent
TypeNext ==
  \/ \E t \in AgentClasses : RegisterAgentType(t)
  \/ \E t \in AgentClasses : CreateAgent(t, "a1")
  \/ Start
  \/ \E d \in Frames : SubmitAnalysisTask(d, "test_analysis")
  \/ TaskProcessorGet
  \/ \E outcome \in Outcomes : TaskProcessorResume(outcome)

\* requests and messages of an unknown type, which are answered, sent to a
\* live agent and to an unknown recipient
LoopMessages ==
  {e \in ExternalMessages :
     /\ e.sender = "test_sender" /\ e.id = 1 /\ e.correlation_id = NoId
     /\ e.message_type \in {"REQUEST", "BOGUS"}}

\* both workers of a running controller fed with tasks and messages, some of
\* which make an iteration raise
LoopNext ==
  \/ RegisterAgentType("mock")
  \/ CreateAgent("mock", "a1")
  \/ Start
  \/ \E d \in {NumFrame, PyNone} : SubmitAnalysisTask(d, "test_analysis")
  \/ TaskProcessorGet
  \/ \E outcome \in Outcomes : TaskProcessorResume(outcome)
  \/ \E m \in LoopMessages : SendMessage(m)
  \/ SendMalformed
  \/ MessageRouterGet
  \/ \E outcome \in Outcomes : MessageRouterResume(outcome)

\* direct use of a CircuitBreaker
BreakerNext ==
  \/ Tick
  \/ CanExecuteCall
  \/ RecordSuccessCall
  \/ RecordFailureCall

\* the transport answers at once, after one failing call, or not within the
\* retries
FailingCalls == {0, 1, MaxRetries + 1}

\* list_models meets every body when the transport answers at once, and a
\* failing transport with the body that lists both models behind it
ListInputs ==
  { [body |-> b, n |-> 0, failure |-> "error"] : b \in ListBodies }
  \cup { [body |-> [decodes |-> TRUE,
                    models |-> <<ModelEntry("llama2"), ModelEntry("mistral")>>],
          n |-> n, failure |-> f] :
            n \in FailingCalls \ {0}, f \in {"error", "soft"} }

\* model management through the client
ModelNext ==
  \/ Tick
  \/ \E i \in ListInputs : ListModels(i.body, i.n, i.failure)
  \/ \E m \in ModelNames, n \in FailingCalls, f \in {"error", "soft"} :
       LoadModel(m, n, f)
  \/ \E m \in ModelNames, n \in FailingCalls, f \in {"error", "soft"} :
       DeleteModel(m, n, f)
  \/ \E st \in BOOLEAN, n \in FailingCalls : GenerateResponse(st, n, "error")

\* requests made through the client
ClientNext ==
  \/ Tick
  \/ \E n \in 0..(MaxRetries + 1) : RequestStart(n)
  \/ \E failure \in {"error", "soft"} : RequestAttempt(failure)

Init == CtlInit /\ ClientInit

Next == TaskNext

Spec == Init /\ [][Next]_vars

\* the event loop runs the task processor whenever it can take a step, and a
\* dispatched _process_request comes to an end
FairSpec ==
  /\ Spec
  /\ WF_vars(TaskProcessorGet)
  /\ WF_vars(\E outcome \in Outcomes : TaskProcessorResume(outcome))

RouterSpec == Init /\ [][RouterNext]_vars

WaitSpec == Init /\ [][WaitNext]_vars

AgentSpec == Init /\ [][AgentNext]_vars

CacheSpec == Init /\ [][CacheNext]_vars

RegistrySpec == Init /\ [][RegistryNext]_vars

TypeSpec == Init /\ [][TypeNext]_vars

\* the event loop runs each worker whenever it can take a step, and every
\* awaited _process_request comes to an end
LoopSpec ==
  /\ Init /\ [][LoopNext]_vars
  /\ WF_vars(TaskProcessorGet)
  /\ WF_vars(\E outcome \in Outcomes : TaskProcessorResume(outcome))
  /\ WF_vars(MessageRouterGet)
  /\ WF_vars(\E outcome \in Outcomes : MessageRouterResume(outcome))

\* a controller that is never stopped, its router fed with a bounded number
\* of messages of every type
DrainNext ==
  \/ RegisterAgentType("mock")
  \/ \E a \in AgentIds : CreateAgent("mock", a)
  \/ Start
  \/ \E m \in ExternalMessages : SendMessage(m)
  \/ MessageRouterGet
  \/ \E outcome \in Outcomes : MessageRouterResume(outcome)

\* the event loop runs the router whenever it can take a step, and every
\* awaited _process_request comes to an end
DrainSpec ==
  /\ Init /\ [][DrainNext]_vars
  /\ WF_vars(MessageRouterGet)
  /\ WF_vars(\E outcome \in Outcomes : MessageRouterResume(outcome))

\* start() and stop() called while earlier stop() calls are suspended in
\* their gather, next to the task pipeline; a worker that was not cancelled
\* leaves its loop when it reads the cleared flag, and start() is not called
\* again while such workers are left
OverlapNext ==
  \/ RegisterAgentType("mock")
  \/ CreateAgent("mock", "a1")
  \/ (running \/ workers + 2 <= MaxWorkers) /\ Start
  \/ StopBegin
  \/ StopEnd
  \/ worker_tasks = <<>> /\ Stop
  \/ TaskProcessorExit
  \/ MessageRouterExit
  \/ SubmitAnalysisTask(NumFrame, "test_analysis")
  \/ TaskProcessorGet
  \/ \E outcome \in Outcomes : TaskProcessorResume(outcome)

OverlapSpec == Init /\ [][OverlapNext]_vars

\* a client constructed with any configuration within the bounds
InitAny == CtlInit /\ ClientInitAny

BreakerSpec == InitAny /\ [][BreakerNext]_vars

ClientSpec == InitAny /\ [][ClientNext]_vars

\* a client set up for model management
InitModel == CtlInit /\ ClientInitModel

ModelSpec == InitModel /\ [][ModelNext]_vars

\* a controller on which agents have been created
InitCap == CapInit /\ ClientInit

CapSpec == InitCap /\ [][CapNext]_vars

(***************************************************************************)
(* Properties.                                                             *)
(***************************************************************************)
Range(l) == {l[i] : i \in 1..Len(l)}

\* analysis_type/data_type is within what the agent's class declares
Declared(agent, analysis_type, data_type) ==
  /\ analysis_type \in Range(Capabilities(agent.cls).supported_analysis_types)
  /\ data_type \in Range(Capabilities(agent.cls).required_data_types)

\* C1: the message process_message returns for a REQUEST m is a RESPONSE (when
\* _process_request returned) or an ERROR (when it raised) whose
\* correlation_id is m.id, whose sender is the agent and whose recipient is
\* m.sender.
C1_RequestReplyCorrelated ==
  [][\A outcome \in Outcomes :
       MessageRouterResume(outcome) =>
         /\ rtMsg.message_type = "REQUEST"
         /\ Len(message_queue') = Len(message_queue) + 1
         /\ LET reply == message_queue'[Len(message_queue')] IN
            /\ reply # NoMessage
            /\ reply.message_type \in {"RESPONSE", "ERROR"}
            /\ reply.message_type = "ERROR" <=> outcome.kind = "raise"
            /\ reply.correlation_id = rtMsg.id
            /\ reply.sender = rtAgent.agent_id
            /\ reply.recipient = rtMsg.sender]_vars

\* agent a2 answered a REQUEST whose _process_request raised
C1_Witness ==
  \E i \in 1..Len(message_queue) :
    /\ message_queue[i].message_type = "ERROR"
    /\ message_queue[i].sender = "a2"
    /\ message_queue[i].payload = [error |-> ExcText]
    /\ message_queue[i].correlation_id \in MsgIds

\* C2: every task taken from the task queue has a result in results_cache,
\* unless the task processor is still working on it or stop() cancelled it.
C2_NoSilentDrop ==
  \A t \in consumed :
    \/ t \in DOMAIN results_cache
    \/ tpPc = "awaiting" /\ tpTask.task_id = t
    \/ t \in abandoned

\* C3: when the task processor takes a task that no live agent can handle,
\* it caches the "system" error result for it in that same step, calls no
\* agent and goes on running; and every queued task is eventually taken
\* from the queue unless the controller is stopped.
C3_UnroutableCached ==
  /\ [][(/\ TaskProcessorGet
         /\ ~DataTypeRaises(Head(task_queue).data)
         /\ \A i \in 1..Len(agents) :
              ~Declared(agents[i], Head(task_queue).analysis_type,
                        DetermineDataType(Head(task_queue).data)))
        => LET task == Head(task_queue) IN
           /\ results_cache' =
                CachePut(results_cache, task.task_id,
                         [task_id |-> task.task_id,
                          agent_id |-> "system",
                          results |-> [error |->
                             <<"No agents capable of handling", task.analysis_type,
                               "for", DetermineDataType(task.data)>>],
                          confidence_score |-> 0,
                          methodology |-> "error",
                          visualizations |-> <<>>])
           /\ calls' = calls
           /\ agents' = agents
           /\ tpPc' = "idle"
           /\ running']_vars
  /\ \A t \in 1..MaxTasks :
       (\E i \in 1..Len(task_queue) : task_queue[i].task_id = t)
         ~> (t \in consumed \/ ~running)

\* the result of Scenario B is cached while an agent is live
C3_Witness ==
  /\ Len(agents) > 0
  /\ \E t \in DOMAIN results_cache :
       /\ results_cache[t].agent_id = "system"
       /\ results_cache[t].results =
            [error |-> <<"No agents capable of handling", "unknown_x", "for",
                         "numerical">>]

\* C4: the agent the task processor dispatched a task to declares the task's
\* analysis_type and the data type inferred from the task's data.
C4_DispatchWithinCapabilities ==
  tpPc = "awaiting" =>
    /\ Declared(tpAgent, tpTask.analysis_type, DetermineDataType(tpTask.data))
    /\ tpReq.message_type = "REQUEST"
    /\ tpReq.recipient = tpAgent.agent_id
    /\ tpReq.payload.analysis_type = tpTask.analysis_type
    /\ tpReq.payload.data = tpTask.data

\* a task was dispatched to the second agent because the first one cannot
\* handle it
C4_Witness ==
  /\ tpPc = "awaiting"
  /\ Len(agents) = 2
  /\ tpAgent.agent_id = agents[2].agent_id
  /\ ~Declared(agents[1], tpTask.analysis_type, DetermineDataType(tpTask.data))

\* C5: can_handle answers true exactly when the analysis type is among the
\* agent's supported_analysis_types and the data type among its
\* required_data_types; get_agents_by_capability returns exactly the live
\* agents for which that holds, each once, and changes nothing.
C5_CapabilityGating ==
  /\ [](/\ capQuery.op = "can_handle" =>
             (capQuery.answer <=>
                Declared(capQuery.agent, capQuery.analysis_type,
                         capQuery.data_type))
        /\ capQuery.op = "get_agents_by_capability" =>
             /\ Range(capQuery.result) =
                  {a \in Range(agents) :
                     Declared(a, capQuery.analysis_type, capQuery.data_type)}
             /\ Len(capQuery.result) = Cardinality(Range(capQuery.result)))
  /\ [][capQuery' # capQuery =>
          UNCHANGED <<agent_types, agents, running, task_queue, message_queue,
                      results_cache, tpPc, tpTask, tpAgent, tpReq, tpLive,
                      rtPc, rtMsg, rtAgent, rtLive>>]_vars

\* one of two live agents was returned, and the other one matches on the
\* analysis type only
C5_Witness ==
  /\ capQuery.op = "get_agents_by_capability"
  /\ Len(agents) = 2
  /\ Len(capQuery.result) = 1
  /\ \E a \in Range(agents) :
       /\ capQuery.analysis_type \in
            Range(Capabilities(a.cls).supported_analysis_types)
       /\ capQuery.data_type \notin
            Range(Capabilities(a.cls).required_data_types)

\* C6: when _process_request raises during a dispatched task, the task
\* processor caches the result {error: <exception text>} with the selected
\* agent's id, confidence_score 0.0 and methodology "error", and goes on
\* running.
C6_AgentFailureCached ==
  [][\A outcome \in Outcomes :
       (TaskProcessorResume(outcome) /\ outcome.kind = "raise") =>
         /\ results_cache' =
              CachePut(results_cache, tpTask.task_id,
                       [task_id |-> tpTask.task_id,
                        agent_id |-> tpAgent.agent_id,
                        results |-> [error |-> outcome.text],
                        confidence_score |-> 0,
                        methodology |-> "error",
                        visualizations |-> <<>>])
         /\ tpPc' = "idle"
         /\ running']_vars

\* an agent's failure has been cached and the task processor is waiting for
\* the next task
C6_Witness ==
  /\ tpPc = "idle"
  /\ \E t \in DOMAIN results_cache :
       /\ results_cache[t].agent_id \in AgentIds
       /\ results_cache[t].results = [error |-> ExcText]
       /\ results_cache[t].methodology = "error"

\* C7: no task causes more than one process_message call, a task taken from
\* the queue is never on the queue again, and the end of an iteration leaves
\* the task queue as it was.
C7_NoOrchestrationRetry ==
  /\ [](/\ \A t \in 1..MaxTasks : calls[t] <= 1
        /\ \A i \in 1..Len(task_queue) : task_queue[i].task_id \notin consumed)
  /\ [][\A outcome \in Outcomes :
          TaskProcessorResume(outcome) =>
            /\ task_queue' = task_queue
            /\ calls' = calls]_vars

\* a task ended with an agent's ERROR after one call and is not queued
C7_Witness ==
  /\ tpPc = "idle"
  /\ \E t \in DOMAIN results_cache :
       /\ results_cache[t].agent_id \in AgentIds
       /\ results_cache[t].methodology = "error"
       /\ calls[t] = 1
       /\ \A i \in 1..Len(task_queue) : task_queue[i].task_id # t

\* C8: while fewer than failure_threshold failures were recorded since the
\* last success the breaker is closed and can_execute() is true; the
\* failure_threshold-th consecutive failure opens it, and can_execute() called
\* right then is false; record_success sets failure_count to 0.
C8_OpensAtThreshold ==
  /\ [](streak < circuit_breaker.failure_threshold =>
          circuit_breaker.state = "closed")
  /\ [][(CanExecuteCall /\ streak < circuit_breaker.failure_threshold) =>
          (cbLast'.result /\ circuit_breaker'.state = "closed")]_vars
  /\ [][(RecordFailureCall /\ streak' >= circuit_breaker.failure_threshold) =>
          (/\ circuit_breaker'.state = "open"
           /\ circuit_breaker'.last_failure_time = now)]_vars
  /\ [][(/\ CanExecuteCall
         /\ cbLast.op = "record_failure"
         /\ streak >= circuit_breaker.failure_threshold
         /\ now = circuit_breaker.last_failure_time) =>
          (~cbLast'.result /\ circuit_breaker'.state = "open")]_vars
  /\ [][RecordSuccessCall =>
          (circuit_breaker'.failure_count = 0 /\ streak' = 0)]_vars

\* the breaker refused a call after failure_threshold >= 2 failures in a row
C8_Witness ==
  /\ circuit_breaker.failure_threshold >= 2
  /\ streak = circuit_breaker.failure_threshold
  /\ cbLast = [op |-> "can_execute", result |-> FALSE, from |-> "open"]
  /\ circuit_breaker.state = "open"

\* C9: can_execute() on an open breaker is true exactly when more than
\* recovery_timeout has passed since last_failure_time; it then makes the
\* breaker half-open and otherwise leaves it as it is; record_success on a
\* half-open breaker closes it with failure_count 0.
C9_Recovery ==
  /\ [][(CanExecuteCall /\ circuit_breaker.state = "open") =>
          (/\ cbLast'.result <=>
                (now - circuit_breaker.last_failure_time >
                   circuit_breaker.recovery_timeout)
           /\ cbLast'.result => circuit_breaker'.state = "half-open"
           /\ ~cbLast'.result => circuit_breaker' = circuit_breaker)]_vars
  /\ [][(RecordSuccessCall /\ circuit_breaker.state = "half-open") =>
          (/\ circuit_breaker'.state = "closed"
           /\ circuit_breaker'.failure_count = 0)]_vars

\* a half-open breaker has just been closed by a success
C9_Witness ==
  /\ cbLast.op = "record_success"
  /\ cbLast.from = "half-open"
  /\ circuit_breaker.state = "closed"
  /\ circuit_breaker.failure_count = 0

\* what C10 says of a finished request
RetryBound ==
  /\ script = max_retries =>
       (httpCalls = max_retries + 1 /\ rqResult = "ok")
  /\ script > max_retries =>
       (httpCalls = max_retries + 1 /\ rqResult # "ok")

\* C10 as stated: a transport that fails max_retries times and then succeeds
\* is called max_retries + 1 times and the request succeeds; one that fails
\* max_retries + 1 times is called max_retries + 1 times and the request
\* raises.
C10_RetryBound == rqPc = "done" => RetryBound

\* C10 amended: the same, for a request none of whose attempts the circuit
\* breaker refused.
C10_RetryBoundAdmitted == (rqPc = "done" /\ ~rejected) => RetryBound

\* Scenario C: two failed calls, then a 200 on the third
C10_Witness ==
  /\ rqPc = "done"
  /\ ~rejected
  /\ max_retries = 2
  /\ script = 2
  /\ httpCalls = 3
  /\ rqResult = "ok"

\* C11: an attempt that the circuit breaker refuses ends the request at once
\* with "Circuit breaker is open": no HTTP call, no backoff sleep, no further
\* attempt.
C11_OpenFailsFast ==
  [][\A failure \in {"error", "soft"} :
       (RequestAttempt(failure) /\ ~CanExecute(circuit_breaker, now)) =>
         /\ rqPc' = "done"
         /\ rqResult' = "breaker_open"
         /\ httpCalls' = httpCalls
         /\ now' = now
         /\ attempt' = attempt]_vars

C13_StartIdempotent ==
  /\ [](running =>
          /\ workers = 2
          /\ worker_tasks = <<"task_processor", "message_router">>
          /\ tpPc # "none" /\ rtPc # "none")
  /\ [][(Start /\ running) => UNCHANGED vars]_vars
  /\ [][(Start /\ ~running) =>
          /\ running'
          /\ workers' = workers + 2
          /\ tpPc' = "idle" /\ rtPc' = "idle"]_vars

\* the task processor is in the middle of a task on a running controller,
\* where a further start() is a call that returns at once
C13_Witness ==
  /\ running
  /\ tpPc = "awaiting"
  /\ workers = 2
  /\ ENABLED (Start /\ UNCHANGED vars)

\* tasks leave the task queue in submission order (task ids are handed out in
\* submission order)
FifoDequeue ==
  /\ \A i, j \in 1..Len(task_queue) :
       i < j => task_queue[i].task_id < task_queue[j].task_id
  /\ \A i \in 1..Len(task_queue) :
       \A t \in consumed : t < task_queue[i].task_id

\* C14: tasks are dequeued in submission order, and when a task's result is
\* cached the result of every task submitted before it has been cached (the
\* task processor finishes a task, caching its result, before it takes the
\* next one).
C14_FifoResults ==
  /\ FifoDequeue
  /\ \A t1, t2 \in 1..MaxTasks :
       (t1 < t2 /\ t2 \in DOMAIN results_cache) => t1 \in DOMAIN results_cache

\* get_analysis_result changes nothing but its caller's own position
WaiterFrame ==
  UNCHANGED <<agent_types, agents, running, task_queue, message_queue,
              results_cache, tpPc, tpTask, tpAgent, tpReq, tpLive, rtPc, rtMsg,
              rtAgent, rtLive, worker_tasks, workers, consumed, abandoned>>

\* C15 as stated, for a call that looked into the cache at least once (its
\* timeout is positive): get_analysis_result returns the cached result when
\* one was in results_cache by the deadline and None otherwise, and it
\* removes and cancels nothing.
C15_ResultByDeadline ==
  /\ []((grPc = "done" /\ grKind = "get" /\ grPolled) =>
          IF grSeen = "in_time"
          THEN grTask \in DOMAIN results_cache
               /\ grResult = results_cache[grTask]
          ELSE grResult = NoResult)
  /\ [][(WaiterPoll \/ WaiterDeadline \/ WaiterTimeout) => WaiterFrame]_vars

\* C15 amended: get_analysis_result returns the cached result when one is in
\* results_cache at one of its looks into the cache, which happen only while
\* the elapsed time is below the timeout, and None when the loop ends without
\* one; it removes and cancels nothing, and the task processor goes on
\* caching results whatever the call returned.
C15_ResultAtPoll ==
  /\ [][(WaiterPoll /\ grKind = "get") =>
          IF grTask \in DOMAIN results_cache
          THEN grPc' = "done" /\ grResult' = results_cache[grTask]
          ELSE grPc' = "polling" /\ grLeft' = grLeft - 1]_vars
  /\ [][(WaiterTimeout /\ grKind = "get") =>
          (grPc' = "done" /\ grResult' = NoResult)]_vars
  /\ [][(WaiterPoll \/ WaiterDeadline \/ WaiterTimeout) => WaiterFrame]_vars
  /\ [][\A t \in DOMAIN results_cache : t \in DOMAIN results_cache']_vars

\* a call timed out with None, and the result of its task was cached
\* afterwards by an agent
C15_Witness ==
  /\ grPc = "done" /\ grKind = "get"
  /\ grResult = NoResult
  /\ grSeen = "late"
  /\ grTask \in DOMAIN results_cache
  /\ results_cache[grTask].agent_id \in AgentIds

\* C16: execute_analysis_pipeline submits one task under an id no task had
\* before and waits for that id; it ends with the result cached under that
\* id or with TimeoutError, never with None, and with TimeoutError whenever no
\* result for the id was cached by the deadline.
C16_PipelineResult ==
  /\ [][\A d \in DataSets, at \in AnalysisTypes :
          ExecuteAnalysisPipeline(d, at) =>
            /\ Len(task_queue') = Len(task_queue) + 1
            /\ task_queue'[Len(task_queue')].task_id = grTask'
            /\ task_queue'[Len(task_queue')].data = d
            /\ task_queue'[Len(task_queue')].analysis_type = at
            /\ grTask' \notin consumed \cup DOMAIN results_cache
            /\ \A i \in 1..Len(task_queue) : task_queue[i].task_id # grTask'
            /\ grLeft' > 0]_vars
  /\ []((grPc = "done" /\ grKind = "pipeline") =>
          /\ grResult # NoResult
          /\ grResult # TimeoutError =>
               /\ grTask \in DOMAIN results_cache
               /\ grResult = results_cache[grTask]
               /\ grResult.task_id = grTask
          /\ grSeen = "late" => grResult = TimeoutError)

\* a pipeline call on a controller that is not running ended in TimeoutError
\* with its task still queued
C16_Witness ==
  /\ grPc = "done" /\ grKind = "pipeline"
  /\ grResult = TimeoutError
  /\ ~running
  /\ \E i \in 1..Len(task_queue) : task_queue[i].task_id = grTask

\* the status of the agent stored under agent_id
StatusOf(agts, agent_id) == agts[AgentIndex(agts, agent_id)].status

\* C17: an agent that starts handling a REQUEST has status BUSY, whatever its
\* status was; when _process_request returns its status becomes IDLE and when
\* it raises an exception ERROR; handling a message of any other type leaves
\* the status of every agent as it was.
C17_RequestStatus ==
  /\ [][(TaskProcessorGet /\ tpPc' = "awaiting") =>
          StatusOf(agents', tpAgent'.agent_id) = "BUSY"]_vars
  /\ [][(MessageRouterGet /\ rtPc' = "awaiting") =>
          StatusOf(agents', rtAgent'.agent_id) = "BUSY"]_vars
  /\ [][\A outcome \in Outcomes :
          (TaskProcessorResume(outcome) /\ tpLive) =>
            StatusOf(agents', tpAgent.agent_id) =
              IF outcome.kind = "return" THEN "IDLE" ELSE "ERROR"]_vars
  /\ [][\A outcome \in Outcomes :
          (MessageRouterResume(outcome) /\ rtLive) =>
            StatusOf(agents', rtAgent.agent_id) =
              IF outcome.kind = "return" THEN "IDLE" ELSE "ERROR"]_vars
  /\ [][(MessageRouterGet /\ Head(message_queue).message_type # "REQUEST") =>
          /\ Len(agents') = Len(agents)
          /\ \A i \in 1..Len(agents) : agents'[i].status = agents[i].status]_vars

\* an agent whose first request raised is handling a second request: its
\* ERROR status has been replaced by BUSY
C17_Witness ==
  /\ tpPc = "awaiting" /\ tpLive
  /\ StatusOf(agents, tpAgent.agent_id) = "BUSY"
  /\ \E t \in DOMAIN results_cache :
       /\ results_cache[t].agent_id = tpAgent.agent_id
       /\ results_cache[t].methodology = "error"

\* C18: clear_cache(max_age) keeps exactly the cached results whose age
\* now - timestamp is at most max_age, each as it was, and removes the others;
\* it changes nothing else of the controller: not the task queue, the message
\* queue, the agents, the workers or a pending get_analysis_result.
C18_ClearByAge ==
  [][\A max_age \in 0..MaxAge :
       ClearCache(max_age) =>
         /\ DOMAIN results_cache' =
              {k \in DOMAIN results_cache : now - timestamp[k] <= max_age}
         /\ \A k \in DOMAIN results_cache' :
              /\ results_cache'[k] = results_cache[k]
              /\ timestamp'[k] = timestamp[k]
         /\ UNCHANGED <<task_queue, message_queue, agents, agent_types,
                        running, tpPc, tpTask, tpAgent, tpReq, tpLive,
                        consumed, wkVars, grVars>>]_vars

\* the last clear_cache(max_age) found one result of age max_age + 1, which a
\* caller had read, and one of age exactly max_age: it removed the first and
\* kept the second
C18_Witness ==
  /\ ccLast.op = "clear_cache"
  /\ \E old, recent \in DOMAIN ccLast.ages :
       /\ ccLast.ages[old] = ccLast.max_age + 1
       /\ old \notin DOMAIN results_cache
       /\ grPc = "done" /\ grTask = old /\ grResult # NoResult
       /\ ccLast.ages[recent] = ccLast.max_age
       /\ recent \in DOMAIN results_cache

\* the result the task processor is to cache for the payload of a RESPONSE:
\* the payload's fields, with the defaults {}, 0.0, "unknown", [] for the
\* fields it lacks
ExpectedResult(task_id, agent_id, payload) ==
  [task_id |-> task_id,
   agent_id |-> agent_id,
   results |-> IF "results" \in DOMAIN payload
               THEN payload.results ELSE EmptyDict,
   confidence_score |-> IF "confidence_score" \in DOMAIN payload
                        THEN payload.confidence_score ELSE 0,
   methodology |-> IF "methodology" \in DOMAIN payload
                   THEN payload.methodology ELSE "unknown",
   visualizations |-> IF "visualizations" \in DOMAIN payload
                      THEN payload.visualizations ELSE <<>>]

\* C19: when _process_request returns, so that the selected agent answers
\* with a RESPONSE, the task processor caches under the task's task_id the
\* result with the selected agent's id and the payload's results,
\* confidence_score, methodology and visualizations, with the defaults for
\* the fields the payload lacks.
C19_ResponseCached ==
  [][\A outcome \in Outcomes :
       (TaskProcessorResume(outcome) /\ outcome.kind = "return") =>
         results_cache' =
           CachePut(results_cache, tpTask.task_id,
                    ExpectedResult(tpTask.task_id, tpAgent.agent_id,
                                   outcome.value))]_vars

\* the same for the RESPONSEs whose payload is a dict
C19_DictResponseCached ==
  [][\A outcome \in Outcomes :
       (TaskProcessorResume(outcome) /\ outcome.kind = "return"
          /\ IsDict(outcome.value)) =>
         results_cache' =
           CachePut(results_cache, tpTask.task_id,
                    ExpectedResult(tpTask.task_id, tpAgent.agent_id,
                                   outcome.value))]_vars

\* C20: create_agent with an agent_type that is not registered changes
\* nothing, the live agents included; with a registered agent_type it stores
\* a new instance of that class (status IDLE, empty results_cache) under the
\* id it returns, which is the supplied id or a generated one, and get_agent
\* of that id yields that instance; every other live agent stays as it was.
C20_CreateAgent ==
  [][\A t \in AgentClasses, a \in AgentIds \cup {NoAgentId} :
       CreateAgent(t, a) =>
         IF t \notin agent_types
         THEN agents' = agents
         ELSE \E r \in (IF a = NoAgentId THEN GeneratedIds(t) ELSE {a}) :
                /\ GetAgent(agents', r) =
                     [agent_id |-> r, cls |-> t, status |-> "IDLE",
                      results_cache |-> EmptyDict]
                /\ Len(agents') =
                     Len(agents) + (IF AgentIndex(agents, r) = 0 THEN 1 ELSE 0)
                /\ \A i \in 1..Len(agents) :
                     agents[i].agent_id # r => agents'[i] = agents[i]
                /\ tpAgent.agent_id = r => ~tpLive'
                /\ rtAgent.agent_id = r => ~rtLive']_vars

\* with "trend" not registered, the live agents are a "mock" agent under a
\* supplied id and one under a generated id
C20_Witness ==
  /\ agent_types = {"mock"}
  /\ Len(agents) = 2
  /\ GetAgent(agents, "a1") # PyNone
  /\ \E g \in GeneratedIds("mock") :
       /\ GetAgent(agents, g) # PyNone
       /\ GetAgent(agents, g).cls = "mock"
       /\ GetAgent(agents, g).agent_id = g

\* the ways a model-management call can meet the transport
Failures == {"error", "soft"}

\* C21: load_model(name) with name already current returns True, makes no
\* network call and changes nothing of the client; otherwise it runs one
\* request, and when the request succeeds it returns True, current_model is
\* name and a known name is AVAILABLE, while when the request fails in any
\* way it returns False, current_model is what it was and a known name is
\* ERROR; the other models keep their status.
C21_LoadModel ==
  [][\A m \in ModelNames, n \in FailingCalls, f \in Failures :
       (mdLast'.op = "load_model" /\ mdLast'.name = m /\ LoadModel(m, n, f)) =>
         LET r == MakeSyncRequest(circuit_breaker, now, 0, max_retries, 0, 0,
                                  n, f)
         IN
         /\ ~mdLast'.raised
         /\ DOMAIN available_models' = DOMAIN available_models
         /\ \A o \in DOMAIN available_models \ {m} :
              available_models'[o] = available_models[o]
         /\ IF current_model = m
            THEN /\ mdLast'.value = "True"
                 /\ mdLast'.httpCalls = 0
                 /\ UNCHANGED <<current_model, available_models,
                                circuit_breaker, now>>
            ELSE /\ mdLast'.httpCalls <= max_retries + 1
                 /\ IF r.result = "ok"
                    THEN /\ mdLast'.value = "True"
                         /\ mdLast'.httpCalls >= 1
                         /\ current_model' = m
                         /\ m \in DOMAIN available_models =>
                              available_models'[m] = "available"
                    ELSE /\ mdLast'.value = "False"
                         /\ current_model' = current_model
                         /\ m \in DOMAIN available_models =>
                              available_models'[m] = "error"]_vars

\* load_model of a known model failed while another model was current: it
\* returned False, the model is marked ERROR and the other is still current
C21_Witness ==
  /\ mdLast.op = "load_model"
  /\ mdLast.value = "False"
  /\ current_model \in ModelNames \ {mdLast.name}
  /\ mdLast.name \in DOMAIN available_models
  /\ available_models[mdLast.name] = "error"

\* C22: generate_response called while no model is current raises "No model
\* loaded" without a requests.request call and leaves the circuit breaker,
\* the clock and the model bookkeeping as they were, with or without stream;
\* with a current model it never ends that way.  A delete_model that succeeds
\* for the current model leaves no model current, and only a load_model that
\* returns True makes a model current again.
C22_NoModelLoaded ==
  [][ /\ \A st \in BOOLEAN, n \in FailingCalls :
           (mdLast'.op = "generate_response" /\ GenerateResponse(st, n, "error"))
             => IF current_model = NoModel
                THEN /\ mdLast'.raised
                     /\ mdLast'.value = "No model loaded"
                     /\ mdLast'.httpCalls = 0
                     /\ UNCHANGED <<circuit_breaker, now, streak,
                                    current_model, available_models>>
                ELSE /\ mdLast'.value # "No model loaded"
                     /\ mdLast'.httpCalls >= 1 \/ mdLast'.value = "breaker_open"
      /\ \A m \in ModelNames, n \in FailingCalls, f \in Failures :
           (mdLast'.op = "delete_model" /\ mdLast'.name = m
              /\ DeleteModel(m, n, f) /\ current_model = m
              /\ mdLast'.value = "True")
             => current_model' = NoModel
      /\ (current_model = NoModel /\ current_model' # NoModel)
           => /\ mdLast'.op = "load_model"
              /\ mdLast'.value = "True"
              /\ mdLast'.httpCalls >= 1
              /\ current_model' = mdLast'.name
    ]_vars

\* generate_response refused for want of a model while the breaker is open
\* and models are known
C22_Witness ==
  /\ mdLast.op = "generate_response"
  /\ mdLast.raised
  /\ mdLast.value = "No model loaded"
  /\ current_model = NoModel
  /\ circuit_breaker.state = "open"
  /\ available_models # EmptyDict

\* C23: delete_model(name) never raises.  When its request succeeds it
\* returns True, removes name from available_models and keeps every other
\* entry, and clears current_model only if it was name; when the request
\* fails it returns False and leaves available_models and current_model as
\* they were.
C23_DeleteModel ==
  [][ \A m \in ModelNames, n \in FailingCalls, f \in Failures :
        (mdLast'.op = "delete_model" /\ mdLast'.name = m /\ DeleteModel(m, n, f))
          => /\ ~mdLast'.raised
             /\ IF MakeSyncRequest(circuit_breaker, now, 0, max_retries, 0, 0,
                                   n, f).result = "ok"
                THEN /\ mdLast'.value = "True"
                     /\ DOMAIN available_models' = DOMAIN available_models \ {m}
                     /\ \A o \in DOMAIN available_models' :
                          available_models'[o] = available_models[o]
                     /\ current_model' =
                          IF current_model = m THEN NoModel ELSE current_model
                ELSE /\ mdLast'.value = "False"
                     /\ UNCHANGED <<available_models, current_model>>
    ]_vars

\* a known model that is not the current one was deleted: the current model
\* and its entry are still there
C23_Witness ==
  /\ mdLast.op = "delete_model"
  /\ mdLast.value = "True"
  /\ current_model \in ModelNames \ {mdLast.name}
  /\ DOMAIN available_models = {current_model}

\* a body whose "models" is a list of entries that all carry a name
WellFormed(body) ==
  /\ body.decodes
  /\ \A i \in 1..Len(body.models) : "name" \in DOMAIN body.models[i]

\* the names of a well-formed body, in its order
BodyNames(body) == [i \in 1..Len(body.models) |-> body.models[i].name]

HasDateColumn(df) == \E i \in 1..Len(df.columns) : df.columns[i] \in {"date", "time"}

AllNumeric(df) == \A i \in 1..Len(df.kinds) : df.kinds[i] \in {"b", "i", "u", "f", "c"}

PriorityLabel(df) ==
  IF HasDateColumn(df) THEN "time_series"
  ELSE IF Len(df.columns) > 10 THEN "multivariate"
  ELSE IF AllNumeric(df) THEN "numerical"
  ELSE "mixed"

\* C25: the data type under which the task processor looks for agents is the
\* one label the priority rules give the task's DataFrame: "time_series" with
\* a column named date or time, else "multivariate" with more than 10
\* columns, else "numerical" when every column is numeric, else "mixed".  So
\* when some agent can handle that label the task goes to such an agent, and
\* otherwise the cached error names that label; 11 columns with a date
\* column are time_series, exactly 10 numeric columns are numerical.
C25_DetermineDataType ==
  /\ DetermineDataType(WideDateFrame) = "time_series"
  /\ DetermineDataType(TenFrame) = "numerical"
  /\ [][ \A d \in Frames :
           (task_queue # <<>> /\ Head(task_queue).data = d /\ TaskProcessorGet)
             => LET task == Head(task_queue)
                    label == PriorityLabel(d)
                IN
                /\ label \in {"time_series", "multivariate", "numerical", "mixed"}
                /\ IF \E i \in 1..Len(agents) :
                        CanHandle(agents[i], task.analysis_type, label)
                   THEN /\ tpPc' = "awaiting"
                        /\ tpTask' = task
                        /\ Declared(tpAgent', task.analysis_type, label)
                        /\ UNCHANGED results_cache
                   ELSE /\ tpPc' = "idle"
                        /\ task.task_id \in DOMAIN results_cache'
                        /\ results_cache'[task.task_id].results.error =
                             <<"No agents capable of handling",
                               task.analysis_type, "for", label>>
       ]_vars

\* an 11-column DataFrame with a date column went to the agent that takes
\* time series, after another DataFrame was refused as multivariate
C25_Witness ==
  /\ tpPc = "awaiting"
  /\ tpTask.data = WideDateFrame
  /\ tpAgent.cls = "trend"
  /\ 1 \in DOMAIN results_cache
  /\ results_cache[1].results.error[4] = "multivariate"

\* task t waits in the task queue
Queued(t) == \E i \in 1..Len(task_queue) : task_queue[i].task_id = t

\* C26: an iteration of the task processor that raises (data from which no
\* data type can be told, a RESPONSE whose payload is no dict) and an
\* iteration of the router that raises (an object that is no AgentMessage)
\* leave running set and the worker at the head of its loop; on a controller
\* that stays running every queued task is taken and its iteration comes to
\* an end, and every queued message is taken from the queue, whichever
\* iterations raised before.
C26_WorkerSurvives ==
  /\ [][ (task_queue # <<>> /\ DataTypeRaises(Head(task_queue).data)
            /\ TaskProcessorGet)
           => (running' /\ tpPc' = "idle" /\ UNCHANGED <<workers, rtPc>>) ]_vars
  /\ [][ \A outcome \in Outcomes :
           (outcome.kind = "return" /\ ~IsDict(outcome.value)
              /\ TaskProcessorResume(outcome))
             => (running' /\ tpPc' = "idle" /\ UNCHANGED <<workers, rtPc>>) ]_vars
  /\ [][ (message_queue # <<>> /\ ~IsAgentMessage(Head(message_queue))
            /\ MessageRouterGet)
           => (running' /\ rtPc' = "idle" /\ UNCHANGED <<workers, tpPc>>) ]_vars
  /\ \A t \in 1..MaxTasks :
       (running /\ Queued(t)) ~> (t \in consumed /\ tpPc = "idle")
  /\ \A m \in LoopMessages \cup {PyNone} :
       (running /\ InList(m, message_queue)) ~> ~InList(m, message_queue)

\* the first task was taken without leaving a result, the second one has its
\* result from the agent, and the router has emptied its queue after a
\* malformed object: both workers are at the head of their loops
C26_Witness ==
  /\ running
  /\ consumed = {1, 2}
  /\ 1 \notin DOMAIN results_cache
  /\ 2 \in DOMAIN results_cache
  /\ results_cache[2].agent_id = "a1"
  /\ tpPc = "idle" /\ rtPc = "idle"
  /\ workers = 2
  /\ sends = 1
  /\ message_queue = <<>>

\* C27: the router takes the message at the head of the queue.  When its
\* recipient is the id of a live agent, that agent and no other processes it:
\* a REQUEST makes it BUSY until _process_request ends and its reply is then
\* put at the tail of the same queue; for another type the agent stores a
\* correlated RESPONSE, and the ERROR it returns for an unknown type goes to
\* the tail of the same queue at once.  When no live agent has that id the
\* message leaves the queue and nothing else changes.
C27_RouterDelivers ==
  [][ /\ MessageRouterGet =>
           LET message == Head(message_queue)
               live == {i \in 1..Len(agents) :
                          agents[i].agent_id = message.recipient}
           IN
           IF live = {}
           THEN /\ message_queue' = Tail(message_queue)
                /\ UNCHANGED <<agent_types, agents, running, task_queue,
                               results_cache, tpPc, tpTask, tpAgent, tpReq,
                               tpLive, rtPc, rtMsg, rtAgent, rtLive, nextTask,
                               sends, consumed, abandoned, calls, capQuery,
                               wkVars, grVars, timestamp, ccLast, cbVars,
                               mdVars>>
           ELSE /\ \A i \in 1..Len(agents) \ live : agents'[i] = agents[i]
                /\ UNCHANGED <<results_cache, task_queue>>
                /\ IF message.message_type = "REQUEST"
                   THEN /\ message_queue' = Tail(message_queue)
                        /\ rtPc' = "awaiting"
                        /\ rtMsg' = message
                        /\ rtAgent'.agent_id = message.recipient
                        /\ \A i \in live : agents'[i].status = "BUSY"
                   ELSE /\ rtPc' = "idle"
                        /\ IF message.message_type \in MessageType
                           THEN message_queue' = Tail(message_queue)
                           ELSE /\ Len(message_queue') = Len(message_queue)
                                /\ SubSeq(message_queue', 1,
                                          Len(message_queue) - 1) =
                                     Tail(message_queue)
                                /\ LET reply ==
                                         message_queue'[Len(message_queue')]
                                   IN /\ reply.sender = message.recipient
                                      /\ reply.recipient = message.sender
                                      /\ reply.message_type = "ERROR"
                                      /\ reply.correlation_id = message.id
                        /\ \A i \in live :
                             agents'[i].results_cache =
                               IF /\ message.message_type = "RESPONSE"
                                  /\ message.correlation_id # NoId
                               THEN CachePut(agents[i].results_cache,
                                             message.correlation_id,
                                             message.payload)
                               ELSE agents[i].results_cache
      /\ \A outcome \in Outcomes :
           MessageRouterResume(outcome) =>
             /\ Len(message_queue') = Len(message_queue) + 1
             /\ SubSeq(message_queue', 1, Len(message_queue)) = message_queue
             /\ LET reply == message_queue'[Len(message_queue')] IN
                /\ reply.sender = rtMsg.recipient
                /\ reply.recipient = rtMsg.sender
                /\ reply.correlation_id = rtMsg.id
             /\ rtPc' = "idle"
             /\ UNCHANGED <<results_cache, task_queue>>
    ]_vars

\* with two live agents, a2 has stored the RESPONSE addressed to it and a1
\* has stored nothing
C27_Witness ==
  /\ Len(agents) = 2
  /\ \E i, j \in 1..Len(agents) :
       /\ agents[i].agent_id = "a2"
       /\ agents[i].results_cache # EmptyDict
       /\ agents[j].agent_id = "a1"
       /\ agents[j].results_cache = EmptyDict
  /\ message_queue = <<>>
  /\ rtPc = "idle"

\* what stop() itself does to the work in hand: it abandons at most the task
\* the task processor is awaiting and the message the router is awaiting, and
\* takes nothing from the queues or the cache
C28_StopFrame ==
  [][Stop =>
       /\ abandoned' \ abandoned \subseteq
            (IF tpPc = "awaiting" THEN {tpTask.task_id} ELSE {})
       /\ Cardinality(abandoned' \ abandoned) <= 1
       /\ tpPc' = "none" /\ rtPc' = "none"
       /\ UNCHANGED <<task_queue, message_queue, results_cache>>]_vars

\* C28: a stop() abandons at most one task, the one the task processor is
\* processing, and leaves the queues and the cache alone; every other task
\* submitted so far has a cached result or is still in the task queue (or was
\* abandoned by an earlier stop()).
C28_StopAbandonsOne ==
  [][Stop =>
       /\ abandoned' \ abandoned \subseteq
            (IF tpPc = "awaiting" THEN {tpTask.task_id} ELSE {})
       /\ UNCHANGED <<task_queue, message_queue, results_cache>>
       /\ \A t \in 1..nextTask :
            \/ t \in DOMAIN results_cache'
            \/ \E i \in 1..Len(task_queue') : task_queue'[i].task_id = t
            \/ t \in abandoned']_vars

\* C29: while the breaker is half-open, that is from the can_execute() that
\* admitted the probe to the record_success() or record_failure() of that
\* probe, every further can_execute() answers False.
C29_SingleProbe ==
  [][(CanExecuteCall /\ circuit_breaker.state = "half-open")
       => ~cbLast'.result]_vars

\* C30: a record_failure() on a half-open breaker opens it and sets
\* last_failure_time to the time of that failure; and an open breaker answers
\* False to can_execute() and stays open as long as no more than
\* recovery_timeout has passed since last_failure_time.
C30_HalfOpenFailure ==
  /\ [][(RecordFailureCall /\ circuit_breaker.state = "half-open")
          => /\ circuit_breaker'.state = "open"
             /\ circuit_breaker'.last_failure_time = now
             /\ ~CanExecute(circuit_breaker', now)]_vars
  /\ [][(CanExecuteCall /\ circuit_breaker.state = "open"
           /\ now - circuit_breaker.last_failure_time
                <= circuit_breaker.recovery_timeout)
          => (~cbLast'.result /\ circuit_breaker' = circuit_breaker)]_vars
  /\ [](circuit_breaker.state = "half-open"
          => circuit_breaker.failure_count >= circuit_breaker.failure_threshold)

\* the probe of a half-open breaker has just failed, later than the failure
\* that had opened the breaker: it is open again with the time of this failure
C30_Witness ==
  /\ cbLast.op = "record_failure"
  /\ cbLast.from = "half-open"
  /\ circuit_breaker.state = "open"
  /\ circuit_breaker.last_failure_time = now
  /\ now > Epoch + circuit_breaker.recovery_timeout
  /\ circuit_breaker.recovery_timeout >= 1

\* C31: an agent with a REQUEST in progress, dispatched by the task processor
\* or delivered by the message router and not yet answered, has status BUSY.
C31_BusyWhileInFlight ==
  /\ (tpPc = "awaiting" /\ tpLive)
       => StatusOf(agents, tpAgent.agent_id) = "BUSY"
  /\ (rtPc = "awaiting" /\ rtLive)
       => StatusOf(agents, rtAgent.agent_id) = "BUSY"

\* positions of the live agents that declare the task's analysis type and
\* the data type of its data
CapableAt(task) ==
  {i \in 1..Len(agents) :
     Declared(agents[i], task.analysis_type, DetermineDataType(task.data))}

C33_ZeroConfidenceIsError ==
  \A t \in DOMAIN results_cache :
    results_cache[t].confidence_score = 0
      => /\ results_cache[t].methodology = "error"
         /\ "error" \in DOMAIN results_cache[t].results

\* C34: no step removes or replaces an agent instance: every id stored in
\* agents keeps its place and the class of its instance, and the instance a
\* worker is awaiting stays the one stored under its id.
C34_AgentPersists ==
  [][ /\ \A i \in 1..Len(agents) :
           /\ i <= Len(agents')
           /\ AgentRef(agents'[i]) = AgentRef(agents[i])
      /\ (tpLive /\ tpPc' = "awaiting") => tpLive'
      /\ (rtLive /\ rtPc' = "awaiting") => rtLive'
    ]_vars

\* C35: a RESPONSE delivered to a live agent is stored by that agent under
\* the message's correlation_id, replacing what was stored there, when it has
\* one, and stores nothing when it has none; the agent returns no message, so
\* the queue only loses the RESPONSE; the status of every agent, the cache of
\* every other agent and the controller's results_cache stay as they were.
C35_ResponseStored ==
  [][(message_queue # <<>> /\ Head(message_queue).message_type = "RESPONSE"
        /\ AgentIndex(agents, Head(message_queue).recipient) # 0
        /\ MessageRouterGet)
       => LET message == Head(message_queue)
              idx == AgentIndex(agents, message.recipient)
          IN
          /\ message_queue' = Tail(message_queue)
          /\ rtPc' = "idle"
          /\ Len(agents') = Len(agents)
          /\ \A i \in 1..Len(agents) :
               /\ agents'[i].status = agents[i].status
               /\ i # idx => agents'[i] = agents[i]
          /\ IF message.correlation_id # NoId
             THEN /\ DOMAIN agents'[idx].results_cache =
                       DOMAIN agents[idx].results_cache
                         \cup {message.correlation_id}
                  /\ agents'[idx].results_cache[message.correlation_id] =
                       message.payload
                  /\ \A c \in DOMAIN agents[idx].results_cache :
                       c # message.correlation_id =>
                         agents'[idx].results_cache[c] =
                           agents[idx].results_cache[c]
             ELSE agents'[idx].results_cache = agents[idx].results_cache
          /\ UNCHANGED results_cache]_vars

\* a1 asked a2, and the RESPONSE of a2 has come back to a1, which stored its
\* payload under the id of its request
C35_Witness ==
  /\ Len(agents) = 2
  /\ \E i, j \in 1..Len(agents) :
       /\ agents[i].agent_id = "a1"
       /\ \E c \in DOMAIN agents[i].results_cache :
            agents[i].results_cache[c] = PayloadFull
       /\ agents[j].agent_id = "a2"
       /\ agents[j].results_cache = EmptyDict
       /\ agents[j].status = "IDLE"
  /\ message_queue = <<>>
  /\ results_cache = EmptyDict

\* follow-up messages the router still owes: one for each queued message
\* that is neither a RESPONSE, a NOTIFICATION nor an ERROR, and one for the
\* REQUEST whose _process_request is awaited
RECURSIVE Owing(_)
Owing(queue) ==
  IF queue = <<>> THEN 0
  ELSE (IF Head(queue).message_type \in {"RESPONSE", "NOTIFICATION", "ERROR"}
        THEN 0 ELSE 1) + Owing(Tail(queue))

Owed == Owing(message_queue) + (IF rtPc = "awaiting" THEN 1 ELSE 0)

\* C36: routing terminates.  Once the messages are sent the queue of a
\* running controller becomes empty and stays empty, with no message held by
\* the router.  A RESPONSE, NOTIFICATION or ERROR taken from the queue adds
\* nothing to it, a REQUEST adds at most one message, which is a RESPONSE or
\* an ERROR; every message the router enqueues is paid for by a message sent
\* before (messages enqueued plus follow-ups owed never grow by more than
\* two for each send_message call, and by nothing otherwise), and the queue
\* never holds more messages than were sent.
C36_RoutingTerminates ==
  /\ <>[](running => (message_queue = <<>> /\ rtPc = "idle"))
  /\ [][MessageRouterGet =>
          LET message == Head(message_queue) IN
          /\ message.message_type \in {"RESPONSE", "NOTIFICATION", "ERROR"}
               => message_queue' = Tail(message_queue) /\ rtPc' = "idle"
          /\ message.message_type = "REQUEST"
               => message_queue' = Tail(message_queue)
          /\ (Len(message_queue') - Len(message_queue) + 1) + Owed' <= Owed]_vars
  /\ [][(\E outcome \in Outcomes : MessageRouterResume(outcome)) =>
          /\ rtMsg.message_type = "REQUEST"
          /\ Len(message_queue') = Len(message_queue) + 1
          /\ message_queue'[Len(message_queue')].message_type
               \in {"RESPONSE", "ERROR"}
          /\ 1 + Owed' <= Owed]_vars
  /\ [][/\ sends' \in {sends, sends + 1}
        /\ sends' = sends + 1
             => /\ Len(message_queue') = Len(message_queue) + 1
                /\ 1 + Owed' <= Owed + 2
        /\ (sends' = sends /\ ~MessageRouterGet
              /\ ~(\E outcome \in Outcomes : MessageRouterResume(outcome)))
             => UNCHANGED message_queue /\ Owed' = Owed]_vars
  /\ [](Len(message_queue) + (IF rtPc = "awaiting" THEN 1 ELSE 0) <= sends)

\* the messages are sent, a REQUEST among them made its agent raise, and the
\* ERROR that followed has left the queue as well
C36_Witness ==
  /\ running /\ sends = MaxSends
  /\ message_queue = <<>> /\ rtPc = "idle"
  /\ \E i \in 1..Len(agents) : agents[i].status = "ERROR"

\* C37: an attempt that the open circuit breaker refuses leaves the breaker's
\* failure_count and last_failure_time as they were, so that the breaker
\* becomes half-open recovery_timeout after the last failure of the transport.
C37_RejectionLeavesBreaker ==
  [][\A failure \in {"error", "soft"} :
       (RequestAttempt(failure) /\ ~CanExecute(circuit_breaker, now)) =>
         /\ circuit_breaker'.failure_count = circuit_breaker.failure_count
         /\ circuit_breaker'.last_failure_time =
              circuit_breaker.last_failure_time]_vars

\* C38: whatever way start() and stop() calls overlap, a worker coroutine
\* that has not terminated is in _worker_tasks, and when the controller is
\* not running and no stop() is still suspended (the last stop() has
\* returned and no start() came after it), no worker is alive.
C38_WorkersRecorded ==
  /\ tpPc # "none" => InList("task_processor", worker_tasks)
  /\ rtPc # "none" => InList("message_router", worker_tasks)
  /\ (~running /\ stopping = 0) => workers = 0

\* C39: a get_analysis_result call whose task_id is in results_cache when
\* the call takes its first step returns that result, whatever its timeout,
\* zero included: it looks into the cache before it gives up with None.
C39_CachedResultReturned ==
  [][(/\ grPc = "polling" /\ grKind = "get" /\ ~grPolled
      /\ grTask \in DOMAIN results_cache
      /\ (WaiterPoll \/ WaiterDeadline \/ WaiterTimeout))
       => (grPc' = "done" /\ grResult' = results_cache[grTask])]_vars

\* C40: the state of a circuit breaker whose failure_threshold is at least 1
\* is closed, open or half-open; a closed breaker has counted fewer failures
\* than its threshold, an open or half-open one at least as many.
C40_BreakerInvariant ==
  /\ circuit_breaker.failure_threshold >= 1
  /\ circuit_breaker.state \in {"closed", "open", "half-open"}
  /\ circuit_breaker.state = "closed"
       => circuit_breaker.failure_count < circuit_breaker.failure_threshold
  /\ circuit_breaker.state \in {"open", "half-open"}
       => circuit_breaker.failure_count >= circuit_breaker.failure_threshold

\* a breaker that went on counting failures while it was open has turned
\* half-open with more failures than its threshold
C40_Witness ==
  /\ cbLast.op = "can_execute"
  /\ cbLast.from = "open"
  /\ circuit_breaker.state = "half-open"
  /\ circuit_breaker.failure_count > circuit_breaker.failure_threshold

====
